---- MODULE Spec2Model ----
(***************************************************************************)
(* MessageHub ingestion engine: the store (db_ops.py), the thread parsers  *)
(* (parsers/*.py) and the scan loop of scripts/ingest.py.                   *)
(*                                                                         *)
(* The message table is called `content` in lib/db_ops.py and `messages`   *)
(* in ingest.py / google_chat.py; both declare the same columns and the    *)
(* same UNIQUE key, and the model has one message table for them.          *)
(***************************************************************************)
EXTENDS Integers, Sequences, FiniteSets, Bags, TLC

\* ------------------------------------------------------------------ bounds
MaxTs == 2
MaxUnits == 11
MaxRuns == 2

\* ------------------------------------------------------------ input values
\* Python None / SQL NULL of a text column, and of an integer column.
NoContent == "<None>"
NullMs == -1
NoSnippet == <<>>
NoHeader == <<>>

Platforms == {"facebook", "instagram", "google_chat", "google_voice", "google_mail"}
Senders == {"A"}
Timestamps == 1..MaxTs
\* the text of a message as the export holds it (absent, plain, with padding)
RawContents == {NoContent, "hi", "hi "}

\* utils.fix_text: None and "" become "", any other text is re-decoded and
\* stripped.
FixTextKeepNone(text) ==
  IF text = "hi " THEN "hi" ELSE text

FixText(text) ==
  IF text = NoContent \/ text = "" THEN ""
  ELSE IF text = "hi " THEN "hi" ELSE text

\* BeautifulSoup get_text(...).strip() of the <q> element, "" without one.
VoiceText(text) ==
  IF text = NoContent THEN ""
  ELSE IF text = "hi " THEN "hi" ELSE text

\* google_mail content: "" without a body, the body wrapped in a <div>
\* (trailing blanks are kept inside the pre-wrap block).
MailText(text) ==
  IF text = NoContent THEN ""
  ELSE IF text = "hi " THEN "<div>hi </div>" ELSE "<div>hi</div>"

\* ------------------------------------------------------------------- store
\* UNIQUE(thread_id, sender_name, timestamp_ms, content): SQLite treats a
\* NULL in a key column as distinct from every other value.
MsgRow(tid, sender, ts, content) ==
  [thread_id |-> tid, sender_name |-> sender, timestamp_ms |-> ts, content |-> content]

ConflictsNever(rows, r) ==
  FALSE

Conflicts(rows, r) ==
  /\ r.content # NoContent
  /\ BagIn(r, rows)

\* INSERT OR IGNORE INTO content/messages ...
InsertOrIgnore(rows, r) ==
  IF Conflicts(rows, r) THEN rows ELSE rows (+) SetToBag({r})

\* INSERT OR REPLACE INTO threads (id PRIMARY KEY)
ThreadRow(tid, platform, ms, snippet) ==
  [id |-> tid, platform |-> platform, last_activity_ms |-> ms, snippet |-> snippet]

\* an UPDATE in the place of the INSERT OR REPLACE: no row is created
ReplaceThreadIfPresent(threads, row) ==
  {IF t.id = row.id THEN row ELSE t : t \in threads}

ReplaceThread(threads, row) ==
  {t \in threads : t.id # row.id} \cup {row}

\* UPDATE threads SET last_activity_ms = ?, snippet = ? WHERE id = ?
UpdateThread(threads, tid, ms, snippet) ==
  {IF t.id = tid THEN [t EXCEPT !.last_activity_ms = ms, !.snippet = snippet] ELSE t
     : t \in threads}

\* INSERT OR IGNORE INTO thread_labels (PRIMARY KEY (thread_id, label))
AddLabel(labels, tid, label) ==
  labels \cup {<<tid, label>>}

\* db_ops.save_identity: INSERT OR REPLACE INTO identities
\* (PRIMARY KEY (platform, id_type, id_value))
save_identity(ids, platform, id_type, id_value, is_me) ==
  {i \in ids : ~(i.platform = platform /\ i.id_type = id_type /\ i.id_value = id_value)}
    \cup {[platform |-> platform, id_type |-> id_type, id_value |-> id_value, is_me |-> is_me]}

EmptyStore ==
  [messages |-> EmptyBag, threads |-> {}, labels |-> {}, identities |-> {}]

\* ------------------------------------------------------------ source units
\* A unit of work as the scanner finds it on disk: a thread directory
\* (facebook, instagram, google_chat), a Voice root or an .mbox file.
\*   name   : directory name (the thread id of a directory unit)
\*   marker : the message file the directory holds
\*   msgs   : the messages of its files, in reading order
\* A message is [tid, sender, ts, raw, dto]; tid is the phone number of the
\* file name (voice) or X-GM-THRID (mail); dto the Delivered-To header.
ThreadNames == {"t1"}
VoiceTids == {"+1"}
MailTids == {"gm_1"}
Markers == {"message_1.json", "messages.json"}

Msg(tid, sender, ts, raw, dto) ==
  [tid |-> tid, sender |-> sender, ts |-> ts, raw |-> raw, dto |-> dto]

\* snippets: NULL is <<>>, "" is <<"">>, "sender: text" is <<sender, text>>
Snippet(sender, content) ==
  IF content # "" /\ content # NoContent THEN <<sender, content>>
  ELSE <<sender, "sent a message">>

ParseResult(st, count, skipped, attempts, dups, stats) ==
  [st |-> st, count |-> count, skipped |-> skipped, attempts |-> attempts,
   dups |-> dups, stats |-> stats]

\* what one executed INSERT OR IGNORE adds to the counters of a parser
Counted(acc, rows, r) ==
  [acc EXCEPT !.rows = InsertOrIgnore(rows, r),
              !.count = @ + (IF Conflicts(rows, r) THEN 0 ELSE 1),
              !.skipped = @ + (IF Conflicts(rows, r) THEN 1 ELSE 0),
              !.attempts = @ + 1,
              !.dups = @ + (IF BagIn(r, rows) THEN 1 ELSE 0)]

LoopStart(rows) ==
  [rows |-> rows, count |-> 0, skipped |-> 0, attempts |-> 0, dups |-> 0,
   last_activity_ms |-> 0, latest_snippet |-> <<"">>]

\* facebook.py 80-149: the message loop of one thread directory
RECURSIVE FbMessages(_, _, _)
FbMessages(msgs, thread_id, acc) ==
  IF msgs = <<>> THEN acc
  ELSE LET m == Head(msgs)
           sender == FixText(m.sender)
           content == FixText(m.raw)
           r == MsgRow(thread_id, sender, m.ts, content)
           a1 == Counted(acc, acc.rows, r)
           a2 == IF m.ts >= acc.last_activity_ms
                 THEN [a1 EXCEPT !.last_activity_ms = m.ts,
                                 !.latest_snippet = Snippet(sender, content)]
                 ELSE a1
       IN FbMessages(Tail(msgs), thread_id, a2)

\* facebook.py 29-161
ingest_facebook_instagram_thread(st, platform, unit, stats) ==
  IF unit.marker # "message_1.json"
  THEN ParseResult(st, 0, 0, 0, 0, stats)
  ELSE LET thread_id == unit.name
           threads1 == ReplaceThread(st.threads, ThreadRow(thread_id, platform, NullMs, NoSnippet))
           labels1 == AddLabel(st.labels, thread_id, "message")
           acc == FbMessages(unit.msgs, thread_id, LoopStart(st.messages))
           threads2 == IF acc.last_activity_ms > 0
                       THEN UpdateThread(threads1, thread_id, acc.last_activity_ms, acc.latest_snippet)
                       ELSE threads1
       IN ParseResult([st EXCEPT !.messages = acc.rows, !.threads = threads2, !.labels = labels1],
                      acc.count, acc.skipped, acc.attempts, acc.dups, stats)

\* google_chat.py 130-186: the message loop
RECURSIVE ChatMessages(_, _, _)
ChatMessages(msgs, thread_id, acc) ==
  IF msgs = <<>> THEN acc
  ELSE LET m == Head(msgs)
           content == FixText(m.raw)
           r == MsgRow(thread_id, m.sender, m.ts, content)
           a1 == Counted(acc, acc.rows, r)
           a2 == IF m.ts >= acc.last_activity_ms
                 THEN [a1 EXCEPT !.last_activity_ms = m.ts,
                                 !.latest_snippet = Snippet(m.sender, content)]
                 ELSE a1
       IN ChatMessages(Tail(msgs), thread_id, a2)

\* google_chat.py 13-194 (the attachment names it resolves go to media_json
\* only; ResolveFilenames below is that step)
ingest_google_chat_thread(st, unit, stats) ==
  LET thread_id == unit.name
      threads1 == ReplaceThread(st.threads, ThreadRow(thread_id, "google_chat", NullMs, NoSnippet))
      acc == ChatMessages(unit.msgs, thread_id, LoopStart(st.messages))
      threads2 == IF acc.last_activity_ms > 0
                  THEN UpdateThread(threads1, thread_id, acc.last_activity_ms, acc.latest_snippet)
                  ELSE threads1
  IN ParseResult([st EXCEPT !.messages = acc.rows, !.threads = threads2],
                 acc.count, acc.skipped, acc.attempts, acc.dups, stats)

\* google_voice.py 32-211: the messages of the files of one virtual thread
RECURSIVE VoiceMessages(_, _, _)
VoiceMessages(msgs, thread_id, acc) ==
  IF msgs = <<>> THEN acc
  ELSE LET m == Head(msgs)
           sender == FixText(m.sender)
           content_text == VoiceText(m.raw)
           r == MsgRow(thread_id, sender, m.ts, content_text)
           a1 == Counted(acc, acc.rows, r)
           a2 == IF m.ts >= acc.last_activity_ms
                 THEN [a1 EXCEPT !.last_activity_ms = m.ts,
                                 !.latest_snippet = IF content_text # ""
                                                    THEN <<sender, content_text>>
                                                    ELSE @]
                 ELSE a1
       IN VoiceMessages(Tail(msgs), thread_id, a2)

\* google_voice.py 10-227
ingest_google_voice_thread(st, thread_id, msgs) ==
  LET acc == VoiceMessages(msgs, thread_id, LoopStart(st.messages))
      written == acc.count > 0
  IN ParseResult(
       [st EXCEPT !.messages = acc.rows,
                  !.threads = IF written
                              THEN ReplaceThread(@, ThreadRow(thread_id, "google_voice",
                                                   acc.last_activity_ms, acc.latest_snippet))
                              ELSE @,
                  !.labels = IF written THEN AddLabel(@, thread_id, "message") ELSE @],
       acc.count, acc.skipped, acc.attempts, acc.dups, <<>>)

\* the thread ids of a message list in order of first appearance
\* (file_groups, cache_threads: dictionaries keep insertion order)
RECURSIVE FirstSeen(_, _)
FirstSeen(msgs, seen) ==
  IF msgs = <<>> THEN seen
  ELSE FirstSeen(Tail(msgs),
                 IF \E i \in 1..Len(seen) : seen[i] = Head(msgs).tid
                 THEN seen ELSE Append(seen, Head(msgs).tid))

OfThread(msgs, tid) ==
  SelectSeq(msgs, LAMBDA m : m.tid = tid)

\* google_voice.py 281-291: the groups one after the other
RECURSIVE VoiceGroups(_, _, _)
VoiceGroups(tids, msgs, res) ==
  IF tids = <<>> THEN res
  ELSE LET one == ingest_google_voice_thread(res.st, Head(tids), OfThread(msgs, Head(tids)))
       IN VoiceGroups(Tail(tids), msgs,
            ParseResult(one.st, res.count + one.count, res.skipped + one.skipped,
                        res.attempts + one.attempts, res.dups + one.dups, res.stats))

\* google_voice.py 230-291
ingest_google_voice(st, unit, stats) ==
  VoiceGroups(FirstSeen(unit.msgs, <<>>), unit.msgs, ParseResult(st, 0, 0, 0, 0, stats))

\* ------------------------------------------------------------ google mail
\* identity_stats: address -> {"names": set(), "count": int}, a dictionary in
\* insertion order, kept as a sequence of [addr, names, count].
Lower(addr) ==
  IF addr = "B@Y" THEN "b@y" ELSE addr

HasAddr(stats, addr) ==
  \E i \in 1..Len(stats) : stats[i].addr = addr

\* google_mail.py 301-310: the Delivered-To header of one message; dto is
\* <<display name, address>> as getaddresses returns it, <<>> without header
CountDelivered(stats, dto) ==
  IF dto = NoHeader \/ dto[2] = "" THEN stats
  ELSE LET addr == Lower(dto[2])
           s1 == IF HasAddr(stats, addr) THEN stats
                 ELSE Append(stats, [addr |-> addr, names |-> {}, count |-> 0])
       IN [i \in 1..Len(s1) |->
             IF s1[i].addr = addr THEN [s1[i] EXCEPT !.count = @ + 1] ELSE s1[i]]

\* google_mail.py 434-449: cache_threads, kept as a sequence of
\* [tid, last_ms, snippet]
CacheThread(cache, tid, ts, content) ==
  IF \E i \in 1..Len(cache) : cache[i].tid = tid
  THEN [i \in 1..Len(cache) |->
          IF cache[i].tid = tid /\ ts > cache[i].last_ms
          THEN [cache[i] EXCEPT !.last_ms = ts, !.snippet = <<content>>]
          ELSE cache[i]]
  ELSE Append(cache, [tid |-> tid, last_ms |-> ts, snippet |-> <<content>>])

\* google_mail.py 288-457: the message loop of one mbox
RECURSIVE MailMessages(_, _)
MailMessages(msgs, acc) ==
  IF msgs = <<>> THEN acc
  ELSE LET m == Head(msgs)
           stats1 == CountDelivered(acc.stats, m.dto)
           sender == FixText(m.sender)
           content == MailText(m.raw)
           r == MsgRow(m.tid, sender, m.ts, content)
           a1 == [Counted(acc, acc.rows, r) EXCEPT !.stats = stats1]
           a2 == IF Conflicts(acc.rows, r) THEN a1
                 ELSE [a1 EXCEPT !.cache = CacheThread(@, m.tid, m.ts, content)]
       IN MailMessages(Tail(msgs), a2)

\* google_mail.py 459-489: the cached threads and their labels
RECURSIVE MailThreads(_, _)
MailThreads(cache, st) ==
  IF cache = <<>> THEN st
  ELSE LET info == Head(cache)
       IN MailThreads(Tail(cache),
            [st EXCEPT !.threads = ReplaceThread(@, ThreadRow(info.tid, "google_mail",
                                                  info.last_ms, info.snippet)),
                       !.labels = AddLabel(@, info.tid, "inbox")])

\* google_mail.py 270-491
ingest_google_mail_mbox(st, unit, identity_stats) ==
  LET acc == MailMessages(unit.msgs,
               [rows |-> st.messages, count |-> 0, skipped |-> 0, attempts |-> 0,
                dups |-> 0, cache |-> <<>>, stats |-> identity_stats])
  IN ParseResult(MailThreads(acc.cache, [st EXCEPT !.messages = acc.rows]),
                 acc.count, acc.skipped, acc.attempts, acc.dups, acc.stats)

\* google_mail.py 494-508: sorted(..., key=count, reverse=True)[0]; the sort
\* is stable, so among equal counts the address seen first comes first
Best(stats) ==
  CHOOSE i \in 1..Len(stats) :
    \A j \in 1..Len(stats) :
      \/ stats[j].count < stats[i].count
      \/ (stats[j].count = stats[i].count /\ i <= j)

discover_google_mail_identity(gmail_identity_stats) ==
  IF gmail_identity_stats = <<>> THEN <<>>
  ELSE LET data == gmail_identity_stats[Best(gmail_identity_stats)]
       IN <<data.addr, data.names, data.count>>

\* db_ops.py 110-123
finalize_gmail_identity(ids, gmail_identity_stats) ==
  LET result == discover_google_mail_identity(gmail_identity_stats)
  IN IF result = <<>> THEN ids
     ELSE LET withEmail == save_identity(ids, "google_mail", "email", result[1], TRUE)
          IN {i \in withEmail : ~(i.platform = "google_mail" /\ i.id_type = "name"
                                   /\ i.id_value \in result[2])}
               \cup {[platform |-> "google_mail", id_type |-> "name",
                      id_value |-> name, is_me |-> TRUE] : name \in result[2]}

\* ---------------------------------------------------------- input domains
\* Delivered-To headers: <<display name, address>>
Headers == {NoHeader, <<"Bob", "b@y">>, <<"", "a@x">>, <<"Rob", "B@Y">>}

\* the messages of the exports: at time 1 a plain text and one without
\* text, at the latest time a padded text
Msgs(tids, dtos) ==
  {m \in {Msg(tid, sender, ts, raw, dto) :
            tid \in tids, sender \in Senders, ts \in Timestamps, raw \in RawContents,
            dto \in dtos} :
     \/ m.ts = 1 /\ m.raw \in {"hi", NoContent}
     \/ m.ts = MaxTs /\ m.raw = "hi "}

\* message lists of a unit: none, one or two messages (the second one with
\* plain text)
MsgLists(tids, dtos) ==
  {<<>>} \cup {<<m>> : m \in Msgs(tids, dtos)}
         \cup {<<m1, m2>> : m1 \in Msgs(tids, dtos),
                            m2 \in {m \in Msgs(tids, dtos) : m.raw = "hi"}}

\* path: "own" is a path no other queue entry has; "shared" is the one
\* directory that is a Voice root and holds a message marker as well.
UnitRec(path, platform, name, marker, msgs) ==
  [path |-> path, platform |-> platform, name |-> name, marker |-> marker, msgs |-> msgs]

DirUnits ==
  {UnitRec(path, platform, name, marker, msgs) :
     path \in {"own", "shared"}, platform \in {"facebook", "instagram", "google_chat"},
     name \in ThreadNames, marker \in Markers, msgs \in MsgLists(ThreadNames, {NoHeader})}

VoiceUnits ==
  {UnitRec(path, "google_voice", "Voice", "Calls", msgs) :
     path \in {"own", "shared"}, msgs \in MsgLists(VoiceTids, {NoHeader})}

MailUnits(dtos) ==
  {UnitRec("own", "google_mail", "All mail.mbox", "mbox", msgs) :
     msgs \in MsgLists(MailTids, dtos)}

\* ------------------------------------------- attachment reconciliation
\* A file of the thread directory is [base, k]: the file name is base when
\* k = 0 and base with "(k)" before the extension otherwise. An export name
\* of the metadata is "a" or "a?"; on disk a "?" is written as "_".
MaxIdx == 3
MaxRefs == 3

ExportNames == {"a", "a?"}
DiskBases == {"a", "a_"}

File(base, k) ==
  [base |-> base, k |-> k]

DiskFiles ==
  {File(base, k) : base \in DiskBases, k \in 0..MaxIdx}

\* ename.replace("?", "_")
Sanitize(ename) ==
  IF ename = "a?" THEN "a_" ELSE ename

HasQuestionMark(ename) ==
  ename = "a?"

\* google_chat.py 54-78: the files of one base name, sorted by index
RECURSIVE SortByIdx(_)
SortByIdx(fileSet) ==
  IF fileSet = {} THEN <<>>
  ELSE LET first == CHOOSE f \in fileSet : \A g \in fileSet : f.k <= g.k
       IN <<first>> \o SortByIdx(fileSet \ {first})

disk_file_map(files, base) ==
  SortByIdx({f \in files : f.base = base})

\* google_chat.py 107-110: the candidates of an export name
Candidates(files, ename) ==
  IF disk_file_map(files, ename) = <<>> /\ HasQuestionMark(ename)
  THEN disk_file_map(files, Sanitize(ename))
  ELSE disk_file_map(files, ename)

\* split_google_chat_messages.py 111
CandidatesSplit(files, ename) ==
  disk_file_map(files, ename)

\* google_chat.py 112, split_google_chat_messages.py 114:
\* offset = max(0, len(candidates) - len(att_list))
OffsetLeft(ncand, nrefs) ==
  0

Offset(ncand, nrefs) ==
  IF ncand - nrefs > 0 THEN ncand - nrefs ELSE 0

\* google_chat.py 114-126: the name the i-th reference (from 0) gets
ResolveIngest(files, ename, nrefs, i) ==
  LET candidates == Candidates(files, ename)
      disk_idx == Offset(Len(candidates), nrefs) + i
  IN IF disk_idx < Len(candidates) THEN candidates[disk_idx + 1]
     ELSE IF disk_idx > 0 THEN File(ename, disk_idx)
     ELSE IF HasQuestionMark(ename) THEN File(Sanitize(ename), 0)
     ELSE File(ename, 0)

\* split_google_chat_messages.py 110-136
ResolveSplit(files, ename, nrefs, i) ==
  LET candidates == CandidatesSplit(files, ename)
      disk_idx == Offset(Len(candidates), nrefs) + i
  IN IF disk_idx < Len(candidates) THEN candidates[disk_idx + 1]
     ELSE IF disk_idx = 0 THEN File(ename, 0)
     ELSE File(ename, disk_idx)

NoAtt ==
  [files |-> {}, ename |-> "a", nrefs |-> 0, by |-> "", export_name |-> <<>>]

\* ------------------------------------------------ Facebook activity files
\* facebook.py 164-521: events the user answered, events the user owns,
\* posts and check-ins, each read from its JSON files and written as one
\* thread with one message per timestamp.  An entry of a file is reduced to
\* its timestamp, its text (the name of an event, the text of a post, the
\* message of a check-in) and, for an answered event, the category that
\* lists it.
MaxItems == 2
MaxCalls == 3

Functions == {"events", "owned_events", "posts", "checkins"}
ActivityTexts == {"", "p"}
ActivityItems ==
  [timestamp : Timestamps, text : ActivityTexts, cat : {"events_joined", "events_declined"}]
ActivityFiles == UNION {[1..n -> ActivityItems] : n \in 1..MaxItems}

\* categories = [(cat_key, status_msg, snippet), ...], in reading order
categories ==
  << [cat_key |-> "events_joined", status_msg |-> "Joined Event",
      snippet |-> "You joined this event."],
     [cat_key |-> "events_interested", status_msg |-> "Interested in Event",
      snippet |-> "You expressed interest in this event."],
     [cat_key |-> "events_declined", status_msg |-> "Declined Event",
      snippet |-> "You declined this event."] >>

\* "if ts not in merged: merged[ts] = entry": the first entry of every
\* timestamp, in insertion order
RECURSIVE FirstOfTimestamp(_, _)
FirstOfTimestamp(items, seen) ==
  IF items = <<>> THEN <<>>
  ELSE IF Head(items).timestamp \in seen THEN FirstOfTimestamp(Tail(items), seen)
  ELSE <<Head(items)>> \o FirstOfTimestamp(Tail(items), seen \cup {Head(items).timestamp})

\* the nested loops of ingest_facebook_events: category by category
RECURSIVE ByCategory(_, _)
ByCategory(items, k) ==
  IF k > Len(categories) THEN <<>>
  ELSE SelectSeq(items, LAMBDA ev : ev.cat = categories[k].cat_key) \o ByCategory(items, k + 1)

CategoryOf(cat_key) ==
  CHOOSE c \in {categories[k] : k \in 1..Len(categories)} : c.cat_key = cat_key

merged_events(items) ==
  FirstOfTimestamp(ByCategory(items, 1), {})

merged_owned_events(items) ==
  FirstOfTimestamp(items, {})

\* posts of one timestamp are merged: their data lists are concatenated and
\* the longest post text is the content
merged_data(items) ==
  LET first == FirstOfTimestamp(items, {})
  IN  [k \in 1..Len(first) |->
         [first[k] EXCEPT !.text =
            IF \E j \in 1..Len(items) :
                 items[j].timestamp = first[k].timestamp /\ items[j].text # ""
            THEN "p" ELSE ""]]

merged_checkins(items) ==
  FirstOfTimestamp(items, {})

\* a row of the content table, with its AUTOINCREMENT id
ContentRow(id, tid, sender, ts, content) ==
  [id |-> id, thread_id |-> tid, sender_name |-> sender, timestamp_ms |-> ts,
   content |-> content]

SameKey(x, r) ==
  /\ x.thread_id = r.thread_id
  /\ x.sender_name = r.sender_name
  /\ x.timestamp_ms = r.timestamp_ms
  /\ x.content = r.content

\* INSERT OR REPLACE INTO content: a row with the same unique key is
\* deleted, the new row gets the next id of the sequence, and the statement
\* reports one changed row
InsertOrReplace(st, r) ==
  [st EXCEPT !.content = {x \in @ : ~SameKey(x, r)} \cup {[r EXCEPT !.id = st.seq + 1]},
             !.seq = @ + 1,
             !.rowcount = 1]

\* the three statements every function runs for one merged entry, and the
\* counting of cursor.rowcount
WriteEntry(st, tid, ts_ms, snippet, label, sender, content) ==
  LET written == InsertOrReplace(
                   [st EXCEPT !.threads = ReplaceThread(@, ThreadRow(tid, "facebook", ts_ms, snippet)),
                              !.labels = AddLabel(@, tid, label)],
                   ContentRow(0, tid, sender, ts_ms, content))
  IN  IF written.rowcount > 0
      THEN [written EXCEPT !.msg_count = @ + 1]
      ELSE [written EXCEPT !.skipped_count = @ + 1]

Ms(ts) == ts * 1000

Me(my_name) ==
  IF my_name = "" THEN "Me" ELSE my_name

EventEntry(st, ev) ==
  WriteEntry(st, <<"fb_event", Ms(ev.timestamp)>>, Ms(ev.timestamp),
             CategoryOf(ev.cat).snippet, "event", "Facebook", CategoryOf(ev.cat).status_msg)

OwnedEventEntry(st, ev) ==
  WriteEntry(st, <<"fb_event", Ms(ev.timestamp)>>, Ms(ev.timestamp),
             "You created this event.", "event", Me(st.my_name), "Created Event")

\* a post without attachments: the text, or the title "Post" without one
PostEntry(st, post) ==
  LET content == FixText(post.text)
  IN  WriteEntry(st, <<"fb_post", Ms(post.timestamp)>>, Ms(post.timestamp),
                 IF content # "" THEN content ELSE "(Media Post)", "post", Me(st.my_name),
                 IF content # "" THEN content ELSE "Post")

\* a check-in without place tags: message or title
CheckinEntry(st, ci) ==
  LET message == FixText(ci.text)
      title == "Checked in at Check-in"
  IN  WriteEntry(st, <<"fb_ci", Ms(ci.timestamp)>>, Ms(ci.timestamp),
                 IF message # "" THEN message ELSE title, "checkin", Me(st.my_name),
                 IF message # "" THEN message ELSE title)

RECURSIVE ForEach(_, _, _)
ForEach(fn, st, merged) ==
  IF merged = <<>> THEN st
  ELSE ForEach(fn,
               CASE fn = "events" -> EventEntry(st, Head(merged))
                 [] fn = "owned_events" -> OwnedEventEntry(st, Head(merged))
                 [] fn = "posts" -> PostEntry(st, Head(merged))
                 [] OTHER -> CheckinEntry(st, Head(merged)),
               Tail(merged))

NoActivity ==
  [items |-> <<>>, my_name |-> "", content |-> {}, seq |-> 0, rowcount |-> 0,
   threads |-> {}, labels |-> {}, calls |-> <<>>, msg_count |-> 0, skipped_count |-> 0,
   prior |-> {}]

\* ----------------------------------------------------------- merge_folders
\* utils.py 242-311.  The files of src are named by MergeFiles; a file of
\* src holds "new" data, a file dst held before the call holds "old" data.
\* What the file system does to a file is fixed per file:
\*   "none"  : shutil.move succeeds
\*   "move"  : shutil.move raises, copy2 and unlink succeed
\*   "both"  : shutil.move and copy2 raise (target side), the file can be
\*             removed from src
\*   "stuck" : as "both", and the file cannot be removed from src either
MergeFiles == {"f1", "f2"}
Faults == {"none", "move", "both", "stuck"}

NoMerge ==
  [src |-> {}, src_exists |-> FALSE, dst |-> [f \in MergeFiles |-> "absent"],
   fault |-> [f \in MergeFiles |-> "none"], pc |-> "idle", todo |-> {},
   total_files |-> 0, current_count |-> 0, given |-> {}, failed |-> {}]

\* dst_file.unlink() when it exists, then shutil.move, then the fallback
MoveFile(m, f) ==
  IF m.fault[f] \in {"none", "move"}
  THEN [m EXCEPT !.dst[f] = "new", !.src = @ \ {f}]
  ELSE [m EXCEPT !.dst[f] = "absent", !.failed = @ \cup {f}]

\* shutil.rmtree(src, onerror=on_rm_error): what cannot be removed stays
RmTree(m) ==
  [m EXCEPT !.src = {f \in @ : m.fault[f] = "stuck"},
            !.src_exists = \E f \in m.src : m.fault[f] = "stuck"]

\* ------------------------------------------------------------------- state
VARIABLES
  activity,          \* the content table and the calls of the facebook activity parsers
  merge,             \* the two directories of a merge_folders call
  mode,              \* which inputs the environment offers (fixed by Init)
  args,              \* command line: --platform, --delete-archives
  disk,              \* free bytes of the workspace, size of each archive
  run,               \* number of the current invocation of start_ingestion
  pc,                \* position of start_ingestion / scan_directory
  db,                \* the store as committed on disk
  tx,                \* the store as the open connection sees it
  scan,              \* the parameters and locals of scan_directory
  files_to_process,  \* the rest of the work queue, when the workspace is known
  tree,              \* queue entries of the first run (unmodified-tree runs)
  last,              \* what the last dispatched unit returned
  obs,               \* observations of the run: commits, writes lost at close
  fs,                \* archive files, the .processed directory, destinations
  now,               \* the clock in milliseconds since the epoch (above 0)
  task,              \* the process_archive call of each archive
  extraction_lock,   \* 0 when free, else the archive whose worker holds it
  ext,               \* locals of extract_archives_found_with_opts
  att,               \* a chat thread directory and its attachment references
  workspace          \* the directory tree under scan_path, when it is known

vars ==
  <<activity, merge, workspace, att, mode, args, disk, run, pc, db, tx, scan, files_to_process, tree, last, obs,
    fs, now, task, extraction_lock, ext>>

storeVars == <<db, tx, scan, files_to_process, tree, last>>
archVars == <<fs, now, task, extraction_lock, ext>>

CommitEvery == 10
PoolCap == 4

MaxArchives == 2
MaxClock == 2
MaxFree == 8

ArchiveIds == 1..MaxArchives
ArchiveNames == {"x.zip", "y.zip"}
\* st_size of an archive
Sizes == {1, 3}

\* the units the scanner can meet, by the kind of workspace
FreeModes == {"dirs", "voice", "mail", "rerun"}
\* the workspaces the operator ingests more than once
AgainModes == {"rerun", "twice"}
\* the workspaces filled from archives: one thread per extracted archive
ArchModes == {"arch", "space"}
\* the workspaces whose archives are sound facebook exports
SoundModes == {"space", "undo"}
\* the workspaces whose directory tree is given: the queue is built from it
WalkModes == {"walk", "classify"}

DirsUnits ==
  {u \in DirUnits :
     /\ u.path = "own"
     /\ u.platform \in {"facebook", "google_chat"}
     /\ u.platform = "google_chat" => u.marker = "messages.json"}

VoiceOnlyUnits ==
  {u \in VoiceUnits : u.path = "own"}

MailOnlyUnits ==
  MailUnits({NoHeader})

\* mail with Delivered-To headers, one plain text at one time
MailIdUnits ==
  {u \in MailUnits(Headers) :
     \A i \in 1..Len(u.msgs) : u.msgs[i].ts = 1 /\ u.msgs[i].raw = "hi"}

\* one message per unit, one plain text at one time
PlainUnits ==
  {u \in DirUnits \cup VoiceUnits :
     /\ u.path = "own" /\ u.marker # "messages.json" /\ Len(u.msgs) = 1
     /\ u.msgs[1].raw = "hi" /\ u.msgs[1].ts = 1}

\* a workspace that is ingested again: facebook threads of one message
RerunUnits ==
  {u \in DirsUnits : u.platform = "facebook" /\ u.marker # "messages.json" /\ Len(u.msgs) = 1}

TwiceUnits ==
  {u \in PlainUnits : u.platform \in {"facebook", "google_voice"}}

Units ==
  CASE mode = "dirs" -> DirsUnits
    [] mode = "voice" -> VoiceOnlyUnits
    [] mode = "mail" -> MailOnlyUnits
    [] mode = "mailid" -> MailIdUnits
    [] mode \in {"rerun", "undo"} -> RerunUnits
    [] mode = "twice" -> TwiceUnits
    [] mode \in WalkModes -> {files_to_process[i][1] : i \in 1..Len(files_to_process)}
    [] OTHER -> PlainUnits

\* limit_platforms=None: no allow-list
NoLimit == {"<None>"}

ScanLocals(platform_filter, limit_platforms) ==
  [platform_filter |-> platform_filter, limit_platforms |-> limit_platforms,
   stage |-> 0, total_threads |-> 0, total_msgs |-> 0,
   processed_dirs |-> {}, discovered_identities |-> {}, gmail_identity_stats |-> <<>>,
   paired |-> {}]

NoResult == [platform |-> "", count |-> 0, skipped |-> 0, attempts |-> 0, dups |-> 0]

\* observations: commits issued, successful units since the last commit,
\* whether close() dropped writes, the identities the connection held at
\* close(), the committed thread and label rows after the first run, why the
\* run ended, the archive files when the scan failed, the identity
\* discoveries and parser calls of a scan of a known workspace, the lines
\* the rollback printed for the recorded moves
NoObs ==
  [commits |-> 0, pending |-> 0, lost |-> FALSE, closing |-> {}, first |-> <<>>,
   why |-> "", atFail |-> <<>>, log |-> <<>>, report |-> <<>>]

\* the <<address, display name>> pairs of the Delivered-To headers of a unit
Paired(msgs) ==
  {<<Lower(msgs[i].dto[2]), msgs[i].dto[1]>> :
     i \in {j \in 1..Len(msgs) : msgs[j].dto # NoHeader /\ msgs[j].dto[1] # ""
                                  /\ msgs[j].dto[2] # ""}}

\* ingest.py 136-193: the queue holds the Voice root first, then the mbox
\* files, then the directories of os.walk; each entry passed the platform
\* filter and the allow-list
StageOf(platform) ==
  IF platform = "google_voice" THEN 1 ELSE IF platform = "google_mail" THEN 2 ELSE 3

QueueOrder(u) ==
  /\ StageOf(u.platform) >= scan.stage
  /\ u.platform = "google_voice" => scan.stage = 0
  /\ scan.platform_filter \in {"all", u.platform}
  /\ scan.limit_platforms = NoLimit \/ u.platform \in scan.limit_platforms

\* a discovery that is remembered only when it found a name
RememberFound(discovered, platform, found) ==
  IF platform = "google_mail" \/ ~found THEN discovered ELSE discovered \cup {platform}

\* ingest.py 221, 231, 241, 251: discovered_identities.add(platform)
Remember(discovered, platform, found) ==
  IF platform = "google_mail" THEN discovered ELSE discovered \cup {platform}

\* ingest.py 216, 226, 236, 246: whether the discover_*_identity function of
\* the platform is called for this unit
Discovers(discovered, platform) ==
  platform # "google_mail" /\ platform \notin discovered

\* ingest.py 215-257: identity discovery on the first unit of a platform,
\* then the parser of the platform
Discover(st, discovered, platform, found) ==
  IF ~Discovers(discovered, platform) \/ ~found THEN st
  ELSE [st EXCEPT !.identities = save_identity(@, platform, "name", "Me", TRUE)]

Dispatch(st, u, stats) ==
  CASE u.platform = "google_voice" -> ingest_google_voice(st, u, stats)
    [] u.platform = "google_chat" -> ingest_google_chat_thread(st, u, stats)
    [] u.platform = "facebook" -> ingest_facebook_instagram_thread(st, "facebook", u, stats)
    [] u.platform = "instagram" -> ingest_facebook_instagram_thread(st, "instagram", u, stats)
    [] u.platform = "google_mail" -> ingest_google_mail_mbox(st, u, stats)

Min(a, b) ==
  IF a < b THEN a ELSE b

\* ingest.py 259-266: a commit when total_threads reaches a multiple of 10
CommitDueLate(total_threads) ==
  total_threads % (CommitEvery + 1) = 0

CommitDue(total_threads) ==
  total_threads % CommitEvery = 0

\* ------------------------------------------------------ the workspace tree
\* workspace.root     : the components of scan_path that matter (none or one)
\* workspace.rootFiles: the marker files scan_path itself holds
\* workspace.calls    : the candidate Voice roots that hold a Calls directory
\* workspace.voice    : the messages of the files of that Calls directory
\* workspace.mbox     : the candidate Mail roots that hold an .mbox file
\* workspace.subdirs  : the directories below scan_path in the order os.walk
\*                      yields them, [path, files], path relative to scan_path
\* workspace.profiles : the platforms whose profile file names the owner
MaxDirs == 3
MaxDepth == 2

PathTokens == {"Google Chat", "Facebook", "messenger", "instagram", "inbox"}

NoPlatform == "<None>"

\* str(p_root).lower(), component by component
LowerToken(t) ==
  IF t = "Google Chat" THEN "google chat"
  ELSE IF t = "Facebook" THEN "facebook" ELSE t

PathStr(path) ==
  [i \in 1..Len(path) |-> LowerToken(path[i])]

\* k in path_str
KeywordIn(k, path_str) ==
  \E i \in 1..Len(path_str) : path_str[i] = k

\* ingest.py 174-179: a dict, iterated in insertion order
platform_map ==
  << <<"google chat", "google_chat">>, <<"facebook", "facebook">>,
     <<"messenger", "facebook">>, <<"instagram", "instagram">> >>

\* the platform of the keyword that stands first in the path
detected_platform_by_position(path_str) ==
  LET at == {i \in 1..Len(path_str) :
               \E j \in 1..Len(platform_map) : platform_map[j][1] = path_str[i]}
  IN IF at = {} THEN NoPlatform
     ELSE LET i == CHOOSE x \in at : \A y \in at : x <= y
              j == CHOOSE x \in 1..Len(platform_map) : platform_map[x][1] = path_str[i]
          IN platform_map[j][2]

\* ingest.py 181: next((v for k, v in platform_map.items() if k in path_str), None)
detected_platform(path_str) ==
  LET hits == {j \in 1..Len(platform_map) : KeywordIn(platform_map[j][1], path_str)}
  IN IF hits = {} THEN NoPlatform
     ELSE platform_map[CHOOSE j \in hits : \A h \in hits : j <= h][2]

\* ingest.py 150, 162, 192: the priority of a queue entry
priority_map(platform) ==
  CASE platform = "google_voice" -> 999
    [] platform = "google_mail" -> 10
    [] platform = "google_chat" -> 1
    [] platform = "facebook" -> 2
    [] platform = "instagram" -> 3

\* ingest.py 140, 156: the candidate roots, in the order they are tried
possible_voice_roots == <<"Voice", "Takeout/Voice", "root">>
possible_mail_roots == <<"Mail", "Takeout/Mail", "root">>

RootPath(ws, candidate) ==
  IF candidate = "root" THEN ws.root ELSE ws.root \o <<candidate>>

\* Path.name
NameOf(path) ==
  IF path = <<>> THEN "" ELSE path[Len(path)]

\* a queue entry (priority, p_root, platform_type), with what the parser
\* will find at p_root and whether the identity discovery of the platform
\* finds a name
QueueEntry(ws, path, platform, marker, msgs) ==
  <<UnitRec(path, platform, NameOf(path), marker, msgs), platform \in ws.profiles,
    priority_map(platform)>>

Allowed(platform, platform_filter, limit_platforms) ==
  /\ platform_filter \in {"all", platform}
  /\ limit_platforms = NoLimit \/ platform \in limit_platforms

\* ingest.py 133-151: the first candidate root with a Calls directory
VoiceEntries(ws, platform_filter, limit_platforms) ==
  LET found == {i \in 1..Len(possible_voice_roots) : possible_voice_roots[i] \in ws.calls}
  IN IF found = {} \/ ~Allowed("google_voice", platform_filter, limit_platforms) THEN <<>>
     ELSE LET first == CHOOSE i \in found : \A j \in found : i <= j
          IN <<QueueEntry(ws, RootPath(ws, possible_voice_roots[first]), "google_voice",
                          "Calls", ws.voice)>>

\* ingest.py 154-162: every .mbox file of every candidate root
MailEntries(ws, platform_filter, limit_platforms) ==
  LET holding == SelectSeq(possible_mail_roots, LAMBDA c : c \in ws.mbox)
  IN IF ~Allowed("google_mail", platform_filter, limit_platforms) THEN <<>>
     ELSE [i \in 1..Len(holding) |->
             QueueEntry(ws, RootPath(ws, holding[i]) \o <<"All mail.mbox">>, "google_mail",
                        "mbox", <<Msg("gm_1", "A", 1, "hi", NoHeader)>>)]

\* os.walk(scan_path): scan_path first, then the directories below it
Walk(ws) ==
  <<[path |-> ws.root, files |-> ws.rootFiles]>>
    \o [i \in 1..Len(ws.subdirs) |->
          [path |-> ws.root \o ws.subdirs[i].path, files |-> ws.subdirs[i].files]]

\* ingest.py 165-193: the marker check, the platform of the path, the
\* filters, the entry
RECURSIVE WalkEntries(_, _, _, _)
WalkEntries(dirs, ws, platform_filter, limit_platforms) ==
  IF dirs = <<>> THEN <<>>
  ELSE LET d == Head(dirs)
           platform == detected_platform(PathStr(d.path))
           rest == WalkEntries(Tail(dirs), ws, platform_filter, limit_platforms)
       IN IF \/ d.files \cap Markers = {}
             \/ platform = NoPlatform
             \/ ~Allowed(platform, platform_filter, limit_platforms)
          THEN rest
          ELSE <<QueueEntry(ws, d.path, platform,
                            IF "message_1.json" \in d.files THEN "message_1.json"
                            ELSE "messages.json",
                            <<Msg(NameOf(d.path), "A", 1, "hi", NoHeader)>>)>> \o rest

\* ingest.py 136-193
BuildQueue(ws, platform_filter, limit_platforms) ==
  VoiceEntries(ws, platform_filter, limit_platforms)
    \o MailEntries(ws, platform_filter, limit_platforms)
    \o WalkEntries(Walk(ws), ws, platform_filter, limit_platforms)

NoWorkspace ==
  [root |-> <<>>, rootFiles |-> {}, calls |-> {}, voice |-> <<>>, mbox |-> {},
   subdirs |-> <<>>, profiles |-> {}]

\* whether the queue of the run is known when the loop starts
KnownQueue ==
  (mode = "twice" /\ run > 1) \/ mode \in WalkModes

\* ingest.py 614-631 and 124-206: start_ingestion calls scan_directory, which
\* connects, builds the queue and initialises the counters
ScanStart ==
  /\ pc = "scan_call"
  /\ pc' = "loop"
  /\ tx' = db
  /\ obs' = [obs EXCEPT !.pending = 0]
  /\ LET limit_platforms == IF ext.processed > 0 THEN ext.detected_platforms
                            ELSE IF ext.found # {} THEN {} ELSE NoLimit
     IN /\ scan' = ScanLocals(args.platform, limit_platforms)
        /\ files_to_process' =
             IF mode = "twice" /\ run > 1 THEN tree
             ELSE IF mode \in WalkModes
                  THEN BuildQueue(workspace, args.platform, limit_platforms)
                  ELSE <<>>
  /\ tree' = IF mode \in WalkModes THEN files_to_process' ELSE tree
  /\ last' = NoResult
  /\ UNCHANGED <<activity, merge, workspace, att, mode, args, disk, run, db>>
  /\ UNCHANGED archVars

\* ingest.py 208-266: one iteration of the processing loop
Iteration(u, found) ==
  /\ mode \in WalkModes \/ QueueOrder(u)
  /\ \E res \in {Dispatch(Discover(tx, scan.discovered_identities, u.platform, found),
                           u, scan.gmail_identity_stats)} :
       LET known == KnownQueue
           ok == res.count > 0 \/ res.skipped > 0
           tt == scan.total_threads + 1
           parsed == [ev |-> "parse", platform |-> u.platform, path |-> u.path]
           log == IF mode \notin WalkModes THEN obs.log
                  ELSE IF Discovers(scan.discovered_identities, u.platform)
                       THEN obs.log \o <<[parsed EXCEPT !.ev = "discover"], parsed>>
                       ELSE Append(obs.log, parsed)
       IN /\ mode = "twice" /\ ~known => Len(tree) < MaxUnits /\ found
          /\ IF known
             THEN /\ files_to_process # <<>>
                  /\ u = Head(files_to_process)[1]
                  /\ found = Head(files_to_process)[2]
                  /\ files_to_process' = Tail(files_to_process)
                  /\ tree' = tree
             ELSE /\ files_to_process' = files_to_process
                  /\ tree' = IF mode = "twice" THEN Append(tree, <<u, found>>) ELSE tree
          /\ IF u.path \in scan.processed_dirs
             THEN /\ scan' = [scan EXCEPT !.stage = StageOf(u.platform)]
                  /\ UNCHANGED <<tx, db, last, obs>>
             ELSE /\ tx' = res.st
                  /\ last' = [platform |-> u.platform, count |-> res.count,
                              skipped |-> res.skipped, attempts |-> res.attempts,
                              dups |-> res.dups]
                  /\ scan' = [scan EXCEPT
                       !.stage = StageOf(u.platform),
                       !.discovered_identities = Remember(@, u.platform, found),
                       !.gmail_identity_stats = res.stats,
                       !.total_threads = IF ok THEN tt ELSE @,
                       !.total_msgs = IF ok THEN @ + res.count ELSE @,
                       !.processed_dirs = IF ok /\ (mode \in WalkModes \/ u.path = "shared")
                                          THEN @ \cup {u.path} ELSE @,
                       !.paired = IF u.platform = "google_mail"
                                  THEN @ \cup Paired(u.msgs) ELSE @]
                  /\ IF ok /\ CommitDue(tt)
                     THEN /\ db' = res.st
                          /\ obs' = [obs EXCEPT !.commits = @ + 1, !.pending = 0,
                                                 !.log = log]
                     ELSE /\ db' = db
                          /\ obs' = [obs EXCEPT !.pending = IF ok THEN @ + 1 ELSE @,
                                                 !.log = log]

UnitBound ==
  IF mode \in ArchModes THEN Min(MaxUnits, Cardinality(fs.extracted)) ELSE MaxUnits

ProcessUnit ==
  /\ pc = "loop"
  /\ scan.total_threads < UnitBound
  /\ \E u \in Units, found \in BOOLEAN : Iteration(u, found)
  /\ UNCHANGED <<activity, merge, workspace, att, mode, args, disk, run, pc>>
  /\ UNCHANGED archVars

\* ingest.py 268-274: finalize the mail identity, close the connection.
\* Closing a connection rolls back what was not committed.
ScanFinish ==
  /\ pc = "loop"
  /\ KnownQueue => files_to_process = <<>>
  /\ LET final == IF scan.gmail_identity_stats # <<>>
                  THEN [tx EXCEPT !.identities =
                          finalize_gmail_identity(@, scan.gmail_identity_stats)]
                  ELSE tx
     IN /\ obs' = [obs EXCEPT !.lost = (final # db),
                              !.closing = final.identities,
                              !.first = IF run = 1 /\ mode = "twice"
                                        THEN <<db.threads, db.labels>> ELSE @]
        /\ tx' = db
  /\ pc' = "scanned"
  /\ UNCHANGED <<activity, merge, workspace, att, mode, args, disk, run, db, scan, files_to_process, tree, last>>
  /\ UNCHANGED archVars

\* an unexpected exception leaves scan_directory (ingest.py 655): the
\* connection is dropped with its uncommitted writes
ScanFail ==
  /\ pc = "loop"
  /\ pc' = "except"
  /\ tx' = db
  /\ obs' = [obs EXCEPT !.why = "failed", !.atFail = fs]
  /\ UNCHANGED <<activity, merge, workspace, att, mode, args, disk, run, db, scan, files_to_process, tree, last>>
  /\ UNCHANGED archVars

\* ------------------------------------------------------- archive extraction
\* fs.atOrig[a]  : which archive file lies at the original path of archive a
\*                 (0: none)
\* fs.proc       : the files of the .processed directory, [name, t, holds]:
\*                 name plus "_t" when t > 0; holds 0 is a file of an earlier
\*                 run
\* fs.dest[d]    : "absent", "dir" or "file" for each destination directory
\* fs.extracted  : <<content, destination>> of every archive extracted
UnknownFree == -1

DestDirs == {"root", "Instagram", "Facebook"}

SigSets ==
  {{}, {"facebook"}, {"google_voice"}, {"instagram", "facebook"}}

\* the archives offered: any kind, corrupt ones included; when the disk
\* space is the question, sound facebook exports
Kinds ==
  IF mode \in SoundModes THEN {{"facebook"}} ELSE SigSets

Faultless ==
  IF mode \in SoundModes THEN {TRUE} ELSE BOOLEAN

NoMove == <<>>

IdleTask ==
  [wpc |-> "queued", sigs |-> {}, dest_dir |-> "root", local_detected |-> {},
   success |-> FALSE, move_info |-> NoMove]

NoExt ==
  [found |-> {}, processed |-> 0, detected_platforms |-> {}, archive_moves |-> <<>>]

RECURSIVE SumSizes(_)
SumSizes(S) ==
  IF S = {} THEN 0
  ELSE LET a == CHOOSE x \in S : TRUE
       IN disk.size[fs.atOrig[a]] + SumSizes(S \ {a})

\* ingest.py 577-590: the archives of the scan locations
ArchivesFound ==
  {a \in ArchiveIds : fs.atOrig[a] # 0}

\* ingest.py 596: required_bytes = total_archive_size * 2.5
SpaceLowTruncated(free_bytes, total_archive_size) ==
  free_bytes < (total_archive_size * 5) \div 2

SpaceLow(free_bytes, total_archive_size) ==
  2 * free_bytes < 5 * total_archive_size

\* ingest.py 577-612: count the archives, check the disk space
Preflight ==
  /\ pc = "start"
  /\ LET found == ArchivesFound
     IN IF found # {} /\ disk.free_bytes # UnknownFree
           /\ SpaceLow(disk.free_bytes, SumSizes(found))
        THEN /\ pc' = "exit1"
             /\ obs' = [obs EXCEPT !.why = "space"]
             /\ UNCHANGED ext
        ELSE /\ pc' = "extract"
             /\ ext' = [NoExt EXCEPT !.found = found]
             /\ UNCHANGED obs
  /\ task' = [a \in ArchiveIds |-> IdleTask]
  /\ UNCHANGED <<activity, merge, workspace, att, mode, args, disk, run, fs, now, extraction_lock>>
  /\ UNCHANGED storeVars

\* archives.py 50-51: nothing to extract
ExtractNone ==
  /\ pc = "extract"
  /\ ext.found = {}
  /\ pc' = "scan_call"
  /\ UNCHANGED <<activity, merge, workspace, att, mode, args, disk, run, obs>>
  /\ UNCHANGED storeVars
  /\ UNCHANGED archVars

Running ==
  {a \in ext.found : task[a].wpc \notin {"queued", "returned", "collected"}}

\* a filter that lets every archive through
FilterAllowsAll(platform_filter, sigs) ==
  TRUE

\* archives.py 82-99: the platform filter
FilterAllows(platform_filter, sigs) ==
  platform_filter = "all" \/ platform_filter \in sigs

\* archives.py 101-106
DestDir(sigs) ==
  IF "facebook" \in sigs THEN "Facebook"
  ELSE IF "instagram" \in sigs THEN "Instagram" ELSE "root"

\* archives.py 108-126
LocalDetected(sigs) ==
  LET google == sigs \cap {"google_voice", "google_chat", "google_mail"}
  IN IF google # {} THEN google
     ELSE IF "instagram" \in sigs THEN {"instagram"}
     ELSE IF "facebook" \in sigs THEN {"facebook"} ELSE {}

\* a worker that reports success whatever happened
ReturnSuccess(t, success, move_info) ==
  [t EXCEPT !.wpc = "returned", !.success = TRUE, !.move_info = move_info]

\* archives.py 73, 99, 126, 134, 157, 169-179: the worker's result
Return(t, success, move_info) ==
  [t EXCEPT !.wpc = "returned", !.success = success, !.move_info = move_info]

\* archives.py 62-126: open the archive, read its member list, classify.
\* readable = FALSE: opening raises (corrupt archive)
OpenArchive(a) ==
  /\ pc = "extract"
  /\ a \in ext.found
  /\ task[a].wpc = "queued"
  /\ Cardinality(Running) < Min(PoolCap, Cardinality(ext.found))
  /\ \E readable \in Faultless, sigs \in Kinds :
       task' = [task EXCEPT ![a] =
         IF ~readable \/ ~FilterAllows(args.platform, sigs) \/ LocalDetected(sigs) = {}
         THEN Return([@ EXCEPT !.sigs = IF readable THEN sigs ELSE {}], FALSE, NoMove)
         ELSE [@ EXCEPT !.wpc = "want_mkdir", !.sigs = sigs, !.dest_dir = DestDir(sigs),
                        !.local_detected = LocalDetected(sigs)]]
  /\ UNCHANGED <<activity, merge, workspace, att, mode, args, disk, run, pc, obs, fs, now, extraction_lock, ext>>
  /\ UNCHANGED storeVars

\* archives.py 129: with extraction_lock
AcquireForMkdir(a) ==
  /\ pc = "extract"
  /\ task[a].wpc = "want_mkdir"
  /\ extraction_lock = 0
  /\ extraction_lock' = a
  /\ task' = [task EXCEPT ![a].wpc = "in_mkdir"]
  /\ UNCHANGED <<activity, merge, workspace, att, mode, args, disk, run, pc, obs, fs, now, ext>>
  /\ UNCHANGED storeVars

\* archives.py 130-134: create the destination, or give up on a file in its
\* place; leaving the with-block releases the lock
PrepareDest(a) ==
  /\ pc = "extract"
  /\ task[a].wpc = "in_mkdir"
  /\ extraction_lock = a
  /\ extraction_lock' = 0
  /\ LET d == task[a].dest_dir
     IN CASE fs.dest[d] = "absent" ->
               /\ fs' = [fs EXCEPT !.dest[d] = "dir"]
               /\ task' = [task EXCEPT ![a].wpc = "extracting"]
          [] fs.dest[d] = "file" ->
               /\ fs' = fs
               /\ task' = [task EXCEPT ![a] = Return(@, FALSE, NoMove)]
          [] OTHER ->
               /\ fs' = fs
               /\ task' = [task EXCEPT ![a].wpc = "extracting"]
  /\ UNCHANGED <<activity, merge, workspace, att, mode, args, disk, run, pc, obs, now, ext>>
  /\ UNCHANGED storeVars

\* archives.py 136-149: extract the members, unlocked
ExtractMembers(a) ==
  /\ pc = "extract"
  /\ task[a].wpc = "extracting"
  /\ fs' = [fs EXCEPT !.extracted = @ \cup {<<fs.atOrig[a], task[a].dest_dir>>}]
  /\ task' = [task EXCEPT ![a].wpc = "want_post"]
  /\ UNCHANGED <<activity, merge, workspace, att, mode, args, disk, run, pc, obs, now, extraction_lock, ext>>
  /\ UNCHANGED storeVars

\* a worker that enters the post-processing section without waiting for the
\* lock
AcquireForPostUnlocked(a) ==
  /\ pc = "extract"
  /\ task[a].wpc = "want_post"
  /\ extraction_lock' = a
  /\ task' = [task EXCEPT ![a].wpc = "in_post"]
  /\ UNCHANGED <<activity, merge, workspace, att, mode, args, disk, run, pc, obs, fs, now, ext>>
  /\ UNCHANGED storeVars

\* archives.py 153: with extraction_lock
AcquireForPost(a) ==
  /\ pc = "extract"
  /\ task[a].wpc = "want_post"
  /\ extraction_lock = 0
  /\ extraction_lock' = a
  /\ task' = [task EXCEPT ![a].wpc = "in_post"]
  /\ UNCHANGED <<activity, merge, workspace, att, mode, args, disk, run, pc, obs, fs, now, ext>>
  /\ UNCHANGED storeVars

ProcFile(name, t, holds) ==
  [name |-> name, t |-> t, holds |-> holds]

Exists(proc, name, t) ==
  \E f \in proc : f.name = name /\ f.t = t

\* a move that puts no file into the directory
MoveNowhere(proc, name, t, holds) ==
  proc

\* shutil.move onto an existing path replaces the file there
MoveInto(proc, name, t, holds) ==
  {f \in proc : ~(f.name = name /\ f.t = t)} \cup {ProcFile(name, t, holds)}

\* archives.py 162-165: the plain name, or name_<timestamp> when it is taken
Destination(proc, name, timestamp) ==
  IF Exists(proc, name, 0) THEN <<name, timestamp>> ELSE <<name, 0>>

\* archives.py 154-175: delete the archive or move it into .processed;
\* ioerror: unlink / move raises
Relocate(a) ==
  /\ pc = "extract"
  /\ task[a].wpc = "in_post"
  /\ extraction_lock = a
  /\ extraction_lock' = 0
  /\ \E timestamp \in now..MaxClock, ioerror \in {~ok : ok \in Faultless} :
       LET name == disk.name[a]
           destination == Destination(fs.proc, name, timestamp)
           clockRead == ~args.delete_archives /\ Exists(fs.proc, name, 0)
       IN /\ clockRead \/ timestamp = now
          /\ now' = timestamp
          /\ IF ioerror
             THEN /\ fs' = fs
                  /\ task' = [task EXCEPT ![a] = Return(@, TRUE, NoMove)]
             ELSE IF args.delete_archives
             THEN /\ fs' = [fs EXCEPT !.atOrig[a] = 0]
                  /\ task' = [task EXCEPT ![a] = Return(@, TRUE, <<a, <<>>>>)]
             ELSE IF fs.atOrig[a] = 0
             THEN /\ fs' = fs
                  /\ task' = [task EXCEPT ![a] = Return(@, TRUE, NoMove)]
             ELSE /\ fs' = [fs EXCEPT
                       !.atOrig[a] = 0,
                       !.proc = MoveInto(@, destination[1], destination[2], fs.atOrig[a])]
                  /\ task' = [task EXCEPT ![a] = Return(@, TRUE, <<a, destination>>)]
  /\ UNCHANGED <<activity, merge, workspace, att, mode, args, disk, run, pc, obs, ext>>
  /\ UNCHANGED storeVars

\* archives.py 187-194: the main thread takes the result of a finished worker
Collect(a) ==
  /\ pc = "extract"
  /\ task[a].wpc = "returned"
  /\ task' = [task EXCEPT ![a].wpc = "collected"]
  /\ ext' = IF task[a].success
            THEN [ext EXCEPT
                    !.processed = @ + 1,
                    !.detected_platforms = @ \cup task[a].local_detected,
                    !.archive_moves = IF task[a].move_info # NoMove
                                      THEN Append(@, task[a].move_info) ELSE @]
            ELSE ext
  /\ UNCHANGED <<activity, merge, workspace, att, mode, args, disk, run, pc, obs, fs, now, extraction_lock>>
  /\ UNCHANGED storeVars

\* archives.py 196-230: consolidate the Takeout sub-trees, return
Consolidate ==
  /\ pc = "extract"
  /\ ext.found # {}
  /\ \A a \in ext.found : task[a].wpc = "collected"
  /\ pc' = "scan_call"
  /\ UNCHANGED <<activity, merge, workspace, att, mode, args, disk, run, obs>>
  /\ UNCHANGED storeVars
  /\ UNCHANGED archVars

\* ingest.py 633-653: delete the ingested source files
Cleanup ==
  /\ pc = "scanned"
  /\ pc' = "exit0"
  /\ UNCHANGED <<activity, merge, workspace, att, mode, args, disk, run, obs>>
  /\ UNCHANGED storeVars
  /\ UNCHANGED archVars

\* ingest.py 659-665: move one recorded archive back
RECURSIVE Restore(_, _)
Restore(moves, f) ==
  IF moves = <<>> THEN f
  ELSE LET original == Head(moves)[1]
           processed == Head(moves)[2]
       IN Restore(Tail(moves),
            IF processed # <<>> /\ Exists(f.proc, processed[1], processed[2])
            THEN LET file == CHOOSE x \in f.proc : x.name = processed[1] /\ x.t = processed[2]
                 IN [f EXCEPT !.atOrig[original] = file.holds, !.proc = @ \ {file}]
            ELSE f)

\* ingest.py 659-665: the lines printed for the recorded moves, one
\* "Restored <name>" for every archive moved back
RECURSIVE RestoreReport(_, _, _)
RestoreReport(moves, f, lines) ==
  IF moves = <<>> THEN lines
  ELSE LET original == Head(moves)[1]
           processed == Head(moves)[2]
           done == processed # <<>> /\ Exists(f.proc, processed[1], processed[2])
       IN RestoreReport(Tail(moves), Restore(<<Head(moves)>>, f),
                        IF done THEN Append(lines, <<"Restored", original>>) ELSE lines)

\* a rollback that also removes what the archives had been extracted to
RollbackAndClean ==
  /\ pc = "except"
  /\ fs' = [Restore(ext.archive_moves, fs) EXCEPT !.extracted = {}]
  /\ obs' = [obs EXCEPT !.report = RestoreReport(ext.archive_moves, fs, <<>>)]
  /\ pc' = "exit1"
  /\ UNCHANGED <<activity, merge, workspace, att, mode, args, disk, run, now, task, extraction_lock, ext>>
  /\ UNCHANGED storeVars

\* ingest.py 655-666: the exception handler of start_ingestion
Rollback ==
  /\ pc = "except"
  /\ fs' = Restore(ext.archive_moves, fs)
  /\ obs' = [obs EXCEPT !.report = RestoreReport(ext.archive_moves, fs, <<>>)]
  /\ pc' = "exit1"
  /\ UNCHANGED <<activity, merge, workspace, att, mode, args, disk, run, now, task, extraction_lock, ext>>
  /\ UNCHANGED storeVars

\* the operator starts the program again
NextRun ==
  /\ pc \in {"exit0", "exit1"}
  /\ run < MaxRuns
  /\ mode \in AgainModes
  /\ run' = run + 1
  /\ pc' = "start"
  /\ obs' = [NoObs EXCEPT !.first = obs.first]
  /\ UNCHANGED <<activity, merge, workspace, att, mode, args, disk>>
  /\ UNCHANGED storeVars
  /\ UNCHANGED archVars

\* --------------------------------------------------------- specifications
NoFs ==
  [atOrig |-> [a \in ArchiveIds |-> 0], proc |-> {},
   dest |-> [d \in DestDirs |-> "absent"], extracted |-> {}]

InitCommon ==
  /\ run = 1
  /\ pc = "start"
  /\ db = EmptyStore
  /\ tx = EmptyStore
  /\ scan = ScanLocals("all", NoLimit)
  /\ files_to_process = <<>>
  /\ tree = <<>>
  /\ last = NoResult
  /\ obs = NoObs
  /\ now = 1
  /\ task = [a \in ArchiveIds |-> IdleTask]
  /\ extraction_lock = 0
  /\ ext = NoExt

InitPlain ==
  /\ att = NoAtt
  /\ workspace = NoWorkspace
  /\ InitCommon
  /\ activity = NoActivity
  /\ merge = NoMerge
  /\ args = [platform |-> "all", delete_archives |-> FALSE]
  /\ disk = [free_bytes |-> 0, size |-> [a \in ArchiveIds |-> 1],
             name |-> [a \in ArchiveIds |-> "x.zip"]]
  /\ fs = NoFs

\* a workspace of extracted exports, ingested repeatedly
Init ==
  /\ mode \in FreeModes
  /\ InitPlain

\* the same workspace ingested twice without a change in between
InitTwice ==
  /\ mode = "twice"
  /\ InitPlain

\* a mail export with Delivered-To headers
InitMail ==
  /\ mode = "mailid"
  /\ InitPlain

\* archives in the scan locations: same or different file names, an archive
\* of an earlier run in .processed, a file in the place of a destination
InitArch ==
  /\ mode = "arch"
  /\ att = NoAtt
  /\ workspace = NoWorkspace
  /\ InitCommon
  /\ activity = NoActivity
  /\ merge = NoMerge
  /\ args \in [platform : {"all", "facebook"}, delete_archives : BOOLEAN]
  /\ \E names \in {n \in [ArchiveIds -> ArchiveNames] : n[1] = "x.zip"} :
       disk = [free_bytes |-> UnknownFree, size |-> [a \in ArchiveIds |-> 1], name |-> names]
  /\ \E present \in {{}, ArchiveIds}, old \in BOOLEAN, blocked \in BOOLEAN :
       /\ fs = [atOrig |-> [a \in ArchiveIds |-> IF a \in present THEN a ELSE 0],
                proc |-> IF old THEN {ProcFile("x.zip", 0, 0)} ELSE {},
                dest |-> [d \in DestDirs |->
                            IF blocked /\ d = "Facebook" THEN "file" ELSE "absent"],
                extracted |-> {}]

\* archives of different sizes on a disk with more or less free space
InitSpace ==
  /\ mode = "space"
  /\ att = NoAtt
  /\ workspace = NoWorkspace
  /\ InitCommon
  /\ activity = NoActivity
  /\ merge = NoMerge
  /\ args = [platform |-> "all", delete_archives |-> FALSE]
  /\ \E free \in (0..MaxFree) \cup {UnknownFree}, sizes \in [ArchiveIds -> Sizes] :
       disk = [free_bytes |-> free, size |-> sizes,
               name |-> [a \in ArchiveIds |-> IF a = 1 THEN "x.zip" ELSE "y.zip"]]
  /\ \E present \in SUBSET ArchiveIds :
       fs = [NoFs EXCEPT !.atOrig = [a \in ArchiveIds |-> IF a \in present THEN a ELSE 0]]

\* a chat thread directory with attachment files and a metadata file that
\* refers nrefs times to one export name
InitRecon ==
  /\ mode = "recon"
  /\ workspace = NoWorkspace
  /\ InitCommon
  /\ activity = NoActivity
  /\ merge = NoMerge
  /\ args = [platform |-> "all", delete_archives |-> FALSE]
  /\ disk = [free_bytes |-> 0, size |-> [a \in ArchiveIds |-> 1],
             name |-> [a \in ArchiveIds |-> "x.zip"]]
  /\ fs = NoFs
  /\ \E files \in SUBSET DiskFiles, ename \in ExportNames, nrefs \in 0..MaxRefs :
       att = [NoAtt EXCEPT !.files = files, !.ename = ename, !.nrefs = nrefs]

\* google_chat.py 105-126: att["export_name"] of every reference
ResolveFilenames ==
  /\ mode = "recon"
  /\ att.by = ""
  /\ att' = [att EXCEPT
       !.by = "ingest",
       !.export_name = [i \in 1..att.nrefs |->
                          ResolveIngest(att.files, att.ename, att.nrefs, i - 1)]]
  /\ UNCHANGED <<activity, merge, workspace, mode, args, disk, run, pc, obs>>
  /\ UNCHANGED storeVars
  /\ UNCHANGED archVars

\* split_google_chat_messages.py 110-136
SplitResolveFilenames ==
  /\ mode = "recon"
  /\ att.by = ""
  /\ att' = [att EXCEPT
       !.by = "split",
       !.export_name = [i \in 1..att.nrefs |->
                          ResolveSplit(att.files, att.ename, att.nrefs, i - 1)]]
  /\ UNCHANGED <<activity, merge, workspace, mode, args, disk, run, pc, obs>>
  /\ UNCHANGED storeVars
  /\ UNCHANGED archVars

\* sequences without repetition of at most n elements of S
RECURSIVE Arrangements(_, _)
Arrangements(S, n) ==
  IF n = 0 THEN {<<>>}
  ELSE LET shorter == Arrangements(S, n - 1)
       IN shorter \cup {Append(q, x) : q \in shorter, x \in S}

Distinct(dirs) ==
  \A i, j \in 1..Len(dirs) : dirs[i].path = dirs[j].path => i = j

\* the paths of at most n components
RECURSIVE PathsUpTo(_)
PathsUpTo(n) ==
  IF n = 0 THEN {<<>>}
  ELSE PathsUpTo(n - 1) \cup {Append(q, t) : q \in PathsUpTo(n - 1), t \in PathTokens}

InitKnownTree ==
  /\ att = NoAtt
  /\ InitCommon
  /\ activity = NoActivity
  /\ merge = NoMerge
  /\ args = [platform |-> "all", delete_archives |-> FALSE]
  /\ disk = [free_bytes |-> 0, size |-> [a \in ArchiveIds |-> 1],
             name |-> [a \in ArchiveIds |-> "x.zip"]]
  /\ fs = NoFs

\* a workspace of extracted exports: thread directories with one or both
\* marker files, a Calls directory under Voice or at the top (with or
\* without readable files), a mailbox, scan_path with or without a platform
\* keyword in its name and a marker file
InitWalk ==
  /\ mode = "walk"
  /\ InitKnownTree
  /\ \E top \in {<<<<>>, {}>>, <<<<"messenger">>, {}>>, <<<<"messenger">>, {"message_1.json"}>>},
        voice \in {<<{}, <<>>>>, <<{"Voice"}, <<>>>>, <<{"root"}, <<>>>>,
                   <<{"Voice"}, <<Msg("+1", "A", 1, "hi", NoHeader)>>>>,
                   <<{"root"}, <<Msg("+1", "A", 1, "hi", NoHeader)>>>>},
        mbox \in {{}, {"Mail"}},
        profiles \in {{}, Platforms},
        subdirs \in {q \in Arrangements(
                             {[path |-> <<t>>, files |-> f] :
                                t \in PathTokens \ {"inbox"},
                                f \in {{"message_1.json"}, Markers}}, MaxDirs) :
                       Distinct(q)} :
       workspace = [root |-> top[1], rootFiles |-> top[2], calls |-> voice[1],
                    voice |-> voice[2], mbox |-> mbox, subdirs |-> subdirs,
                    profiles |-> profiles]

\* one directory below scan_path, with every path of platform keywords and
\* other names up to MaxDepth components below a scan_path of at most one
\* component
InitClassify ==
  /\ mode = "classify"
  /\ InitKnownTree
  /\ \E root \in PathsUpTo(1), path \in PathsUpTo(MaxDepth) \ {<<>>},
        files \in SUBSET Markers :
       workspace = [NoWorkspace EXCEPT !.root = root,
                      !.subdirs = <<[path |-> path, files |-> files]>>]

ReconNext ==
  \/ ResolveFilenames
  \/ SplitResolveFilenames

SpecRecon ==
  InitRecon /\ [][ReconNext]_vars

OnceNext ==
  \/ Preflight
  \/ ExtractNone
  \/ ScanStart
  \/ ProcessUnit
  \/ ScanFinish
  \/ ScanFail
  \/ Cleanup
  \/ Rollback

Next ==
  \/ OnceNext
  \/ NextRun

Spec ==
  Init /\ [][Next]_vars

SpecTwice ==
  InitTwice /\ [][Next]_vars

SpecMail ==
  InitMail /\ [][OnceNext]_vars

ArchNext ==
  \/ OnceNext
  \/ \E a \in ArchiveIds : OpenArchive(a)
  \/ \E a \in ArchiveIds : AcquireForMkdir(a)
  \/ \E a \in ArchiveIds : PrepareDest(a)
  \/ \E a \in ArchiveIds : ExtractMembers(a)
  \/ \E a \in ArchiveIds : AcquireForPost(a)
  \/ \E a \in ArchiveIds : Relocate(a)
  \/ \E a \in ArchiveIds : Collect(a)
  \/ Consolidate

SpecArch ==
  InitArch /\ [][ArchNext]_vars

SpecSpace ==
  InitSpace /\ [][ArchNext]_vars

\* two facebook exports in the scan locations, or none, and a workspace of
\* many facebook threads; the archives are moved to .processed or deleted
InitUndo ==
  /\ mode = "undo"
  /\ att = NoAtt
  /\ workspace = NoWorkspace
  /\ InitCommon
  /\ activity = NoActivity
  /\ merge = NoMerge
  /\ \E delete_archives \in BOOLEAN :
       args = [platform |-> "all", delete_archives |-> delete_archives]
  /\ disk = [free_bytes |-> UnknownFree, size |-> [a \in ArchiveIds |-> 1],
             name |-> [a \in ArchiveIds |-> IF a = 1 THEN "x.zip" ELSE "y.zip"]]
  /\ \E present \in {{}, ArchiveIds} :
       fs = [NoFs EXCEPT !.atOrig = [a \in ArchiveIds |-> IF a \in present THEN a ELSE 0]]

SpecUndo ==
  InitUndo /\ [][ArchNext]_vars

\* ------------------------------------------ one unit, its messages in any order
MaxMsgs == 3

\* every list of up to MaxMsgs messages of one thread: every order of every
\* choice of times and texts
OrderLists(tid) ==
  UNION {[1..n -> {Msg(tid, sender, ts, raw, NoHeader) :
                     sender \in Senders, ts \in Timestamps, raw \in RawContents}]
           : n \in 1..MaxMsgs}

OrderUnits ==
  {UnitRec("own", platform, "t1", IF platform = "google_chat" THEN "messages.json"
                                  ELSE "message_1.json", msgs) :
     platform \in {"facebook", "instagram", "google_chat"}, msgs \in OrderLists("t1")}
    \cup {UnitRec("own", "google_voice", "Voice", "Calls", msgs) : msgs \in OrderLists("+1")}

InitOrder ==
  /\ mode = "order"
  /\ InitPlain

\* the parser of the unit's platform, called on an empty store
IngestUnit ==
  /\ mode = "order"
  /\ tree = <<>>
  /\ \E u \in OrderUnits :
       \E res \in {Dispatch(tx, u, <<>>)} :
         /\ tx' = res.st
         /\ last' = [platform |-> u.platform, count |-> res.count, skipped |-> res.skipped,
                     attempts |-> res.attempts, dups |-> res.dups]
         /\ tree' = << <<u, FALSE>> >>
  /\ UNCHANGED <<activity, merge, workspace, att, mode, args, disk, run, pc, db, scan,
                 files_to_process, obs>>
  /\ UNCHANGED archVars

SpecOrder ==
  InitOrder /\ [][IngestUnit]_vars

\* ------------------------------------------- facebook activity, called twice
\* the activity files of one export and an empty store; the files stay as
\* they are between the calls
InitActivity ==
  /\ mode = "activity"
  /\ att = NoAtt
  /\ workspace = NoWorkspace
  /\ InitCommon
  /\ args = [platform |-> "all", delete_archives |-> FALSE]
  /\ disk = [free_bytes |-> 0, size |-> [a \in ArchiveIds |-> 1],
             name |-> [a \in ArchiveIds |-> "x.zip"]]
  /\ fs = NoFs
  /\ merge = NoMerge
  /\ \E items \in ActivityFiles, my_name \in {"", "Ann"} :
       activity = [NoActivity EXCEPT !.items = items, !.my_name = my_name]

\* one call of a parser function: the counters start at zero, every merged
\* entry is written, (msg_count, skipped_count) is returned
Call(fn, merged) ==
  /\ mode = "activity"
  /\ Len(activity.calls) < MaxCalls
  /\ activity' = [ForEach(fn, [activity EXCEPT !.msg_count = 0, !.skipped_count = 0], merged)
                    EXCEPT !.calls = Append(@, fn), !.prior = activity.content]
  /\ UNCHANGED <<merge, workspace, att, mode, args, disk, run, pc, obs>>
  /\ UNCHANGED storeVars
  /\ UNCHANGED archVars

ingest_facebook_events ==
  Call("events", merged_events(activity.items))

ingest_facebook_owned_events ==
  Call("owned_events", merged_owned_events(activity.items))

ingest_facebook_posts ==
  Call("posts", merged_data(activity.items))

ingest_facebook_checkins ==
  Call("checkins", merged_checkins(activity.items))

ActivityNext ==
  \/ ingest_facebook_events
  \/ ingest_facebook_owned_events
  \/ ingest_facebook_posts
  \/ ingest_facebook_checkins

SpecActivity ==
  InitActivity /\ [][ActivityNext]_vars

\* --------------------------------------------------- one merge_folders call
InitMerge ==
  /\ mode = "merge"
  /\ att = NoAtt
  /\ workspace = NoWorkspace
  /\ InitCommon
  /\ args = [platform |-> "all", delete_archives |-> FALSE]
  /\ disk = [free_bytes |-> 0, size |-> [a \in ArchiveIds |-> 1],
             name |-> [a \in ArchiveIds |-> "x.zip"]]
  /\ fs = NoFs
  /\ activity = NoActivity
  /\ \E src_exists \in BOOLEAN, present \in SUBSET MergeFiles,
        old \in SUBSET MergeFiles, fault \in [MergeFiles -> Faults] :
       /\ src_exists \/ present = {}
       /\ \A f \in MergeFiles \ present : fault[f] = "none"
       /\ merge = [NoMerge EXCEPT
            !.src_exists = src_exists, !.src = present, !.given = present,
            !.fault = fault,
            !.dst = [f \in MergeFiles |-> IF f \in old THEN "old" ELSE "absent"]]

\* utils.py 247-263: return without src; count the files; an empty src is
\* removed at once
MergeDiscover ==
  /\ mode = "merge"
  /\ merge.pc = "idle"
  /\ merge' =
       IF ~merge.src_exists THEN [merge EXCEPT !.pc = "done"]
       ELSE IF Cardinality(merge.src) = 0 THEN [RmTree(merge) EXCEPT !.pc = "done"]
       ELSE [merge EXCEPT !.pc = "move", !.todo = merge.src,
                          !.total_files = Cardinality(merge.src)]
  /\ UNCHANGED <<activity, workspace, att, mode, args, disk, run, pc, obs>>
  /\ UNCHANGED storeVars
  /\ UNCHANGED archVars

\* utils.py 274-297: one file of the walk, in the order os.walk lists them
MergeMove ==
  /\ mode = "merge"
  /\ merge.pc = "move"
  /\ \E f \in merge.todo :
       merge' = [MoveFile(merge, f) EXCEPT
                   !.todo = @ \ {f},
                   !.current_count = @ + 1,
                   !.pc = IF merge.todo = {f} THEN "cleanup" ELSE "move"]
  /\ UNCHANGED <<activity, workspace, att, mode, args, disk, run, pc, obs>>
  /\ UNCHANGED storeVars
  /\ UNCHANGED archVars

\* utils.py 299-311: Phase 3
MergeCleanup ==
  /\ mode = "merge"
  /\ merge.pc = "cleanup"
  /\ merge' = [RmTree(merge) EXCEPT !.pc = "done"]
  /\ UNCHANGED <<activity, workspace, att, mode, args, disk, run, pc, obs>>
  /\ UNCHANGED storeVars
  /\ UNCHANGED archVars

MergeNext ==
  \/ MergeDiscover
  \/ MergeMove
  \/ MergeCleanup

SpecMerge ==
  InitMerge /\ [][MergeNext]_vars

SpecWalk ==
  InitWalk /\ [][OnceNext]_vars

SpecClassify ==
  InitClassify /\ [][OnceNext]_vars

\* archives.py 53-179: the steps of the pool thread that runs
\* process_archive for archive a
Worker(a) ==
  \/ OpenArchive(a)
  \/ AcquireForMkdir(a)
  \/ PrepareDest(a)
  \/ ExtractMembers(a)
  \/ AcquireForPost(a)
  \/ Relocate(a)

\* archives.py 50-51, 185-230: the steps of the thread that called
\* extract_archives_found_with_opts
Executor ==
  \/ ExtractNone
  \/ \E a \in ArchiveIds : Collect(a)
  \/ Consolidate

\* the extraction with its scheduling: every pool thread and the calling
\* thread keep running while they have a step to take
SpecPool ==
  /\ InitArch
  /\ [][ArchNext]_vars
  /\ \A a \in ArchiveIds : WF_vars(Worker(a))
  /\ WF_vars(Executor)

\* ------------------------------------------------------------- properties
NoTwoRows(rows) ==
  \A r \in BagToSet(rows) : CopiesIn(r, rows) = 1

\* C1: neither the open transaction nor the committed store holds two
\* message rows with the same (thread_id, sender_name, timestamp_ms,
\* content), whatever units were ingested in whatever run.
C1_UniqueRows ==
  /\ NoTwoRows(tx.messages)
  /\ NoTwoRows(db.messages)

\* a later run met a message again that an earlier run had committed
C1_Witness ==
  /\ run = 2
  /\ pc = "loop"
  /\ last.skipped > 0
  /\ BagCardinality(db.messages) > 0
  /\ BagCardinality(tx.messages) = BagCardinality(db.messages)

\* C2: when the second run over the unchanged tree has finished, it has
\* inserted no message, and the committed thread rows and label rows are
\* those the first run left.
C2_SecondRunIdle ==
  (mode = "twice" /\ run = 2 /\ pc = "scanned" /\ obs.first # <<>>)
    => /\ scan.total_msgs = 0
       /\ <<db.threads, db.labels>> = obs.first

\* C3: when scan_directory returns normally, no write of the run was dropped
\* at close(): all of them, the identity rows of finalize_gmail_identity
\* included, were committed.
C3_FinalCommit ==
  pc = "scanned" => ~obs.lost

StoredTimes(st, tid) ==
  {r.timestamp_ms : r \in {x \in BagToSet(st.messages) : x.thread_id = tid}}

MaxOf(S) ==
  CHOOSE m \in S : \A x \in S : x <= m

\* C4: between two units, the last_activity_ms of every thread row is the
\* largest timestamp of the messages stored under its thread id.
C4_LastActivity ==
  \A t \in tx.threads :
    StoredTimes(tx, t.id) # {} => t.last_activity_ms = MaxOf(StoredTimes(tx, t.id))

\* C5: with C the candidates of the export name in index order and R
\* references, reference i gets C[max(0, |C| - R) + i] whenever that
\* candidate exists; so with |C| >= R >= 1 the last reference gets the last
\* candidate.
C5_RightAligned ==
  att.by # "" =>
    LET C == IF att.by = "ingest" THEN Candidates(att.files, att.ename)
             ELSE CandidatesSplit(att.files, att.ename)
        R == att.nrefs
        off == IF Len(C) > R THEN Len(C) - R ELSE 0
    IN /\ \A i \in 0..(R - 1) :
            off + i < Len(C) => att.export_name[i + 1] = C[off + i + 1]
       /\ (Len(C) >= R /\ R >= 1) => att.export_name[R] = C[Len(C)]

\* candidates a, a(1), a(2), a(3) and two references: a(2) and a(3)
C5_Witness ==
  /\ att.by = "ingest"
  /\ att.ename = "a"
  /\ {f \in att.files : f.base = "a"} = {File("a", k) : k \in 0..3}
  /\ att.nrefs = 2
  /\ att.export_name = <<File("a", 2), File("a", 3)>>

MeIdentity(id_type, id_value) ==
  [platform |-> "google_mail", id_type |-> id_type, id_value |-> id_value, is_me |-> TRUE]

\* C6: when the mail of a run is ingested, an address with the highest
\* Delivered-To count is among the identities as the owner's email, and so
\* is every display name seen with that address, as the owner's name.
C6_MailIdentity ==
  (pc = "scanned" /\ scan.gmail_identity_stats # <<>>) =>
    LET stats == scan.gmail_identity_stats
    IN \E i \in 1..Len(stats) :
         /\ \A j \in 1..Len(stats) : stats[j].count <= stats[i].count
         /\ MeIdentity("email", stats[i].addr) \in obs.closing
         /\ \A p \in scan.paired :
              p[1] = stats[i].addr => MeIdentity("name", p[2]) \in obs.closing

MovedToProcessed(a) ==
  \E i \in 1..Len(ext.archive_moves) :
    ext.archive_moves[i][1] = a /\ ext.archive_moves[i][2] # <<>>

C9_InsertedOrSkipped ==
  /\ last.count + last.skipped = last.attempts
  /\ last.skipped = last.dups

\* a unit of two attempts, one inserted and one skipped
C9_Witness ==
  /\ last.attempts = 2
  /\ last.count = 1
  /\ last.skipped = 1

\* C10: in the loop a commit happens with exactly those steps that bring the
\* number of successful units to a multiple of 10, no other step changes the
\* committed store, and the units whose rows are uncommitted are fewer than
\* 10.
C10_CommitEveryTen ==
  /\ [][/\ (pc = "loop" /\ pc' = "loop") =>
             ((obs'.commits = obs.commits + 1)
                <=> (/\ scan'.total_threads = scan.total_threads + 1
                     /\ scan'.total_threads % 10 = 0))
        /\ IF obs'.commits = obs.commits + 1 THEN db' = tx' ELSE db' = db]_vars
  /\ [](obs.pending < 10)

\* the tenth successful unit of a run has been committed
C10_Witness ==
  /\ pc = "loop"
  /\ scan.total_threads = 10
  /\ obs.commits = 1
  /\ db = tx
  /\ BagCardinality(db.messages) > 0

InMkdir(a) ==
  task[a].wpc = "in_mkdir"

InPost(a) ==
  task[a].wpc = "in_post"

\* C11: at most one worker at a time is inside the directory-creation or the
\* relocation section, and it is the holder of the lock; no worker holds the
\* lock while it extracts members, waits or is done; a worker that holds the
\* lock gives it up, and a worker that waits for the lock gets it.
C11_MutualExclusion ==
  /\ [](/\ \A a, b \in ArchiveIds :
             (InMkdir(a) \/ InPost(a)) /\ (InMkdir(b) \/ InPost(b)) => a = b
        /\ \A a \in ArchiveIds :
             /\ (InMkdir(a) \/ InPost(a)) <=> extraction_lock = a
             /\ task[a].wpc = "extracting" => extraction_lock # a)
  /\ \A a \in ArchiveIds :
       /\ (extraction_lock = a) ~> (extraction_lock # a)
       /\ (task[a].wpc = "want_mkdir") ~> InMkdir(a)
       /\ (task[a].wpc = "want_post") ~> InPost(a)

\* one worker relocates its archive while the other waits to create its
\* destination
C11_Witness ==
  /\ extraction_lock = 1
  /\ InPost(1)
  /\ task[2].wpc = "want_mkdir"

\* C12: two workers that extract members at the same time do so into
\* different destination directories.
C12_DisjointDestinations ==
  \A a, b \in ArchiveIds :
    (a # b /\ task[a].wpc = "extracting" /\ task[b].wpc = "extracting")
      => task[a].dest_dir # task[b].dest_dir

\* C13: an archive that was extracted and collected has recorded every
\* signature its member list matches, and all of them are in the returned
\* set of detected platforms.
C13_AllTagsRecorded ==
  \A a \in ArchiveIds :
    (task[a].wpc = "collected" /\ task[a].success)
      => /\ task[a].local_detected = task[a].sigs
         /\ task[a].sigs \subseteq ext.detected_platforms

\* the members of archive a were extracted into the workspace
Extracted(a) ==
  \E d \in DestDirs : <<a, d>> \in fs.extracted

Finished(a) ==
  task[a].wpc \in {"returned", "collected"}

\* the archive cannot be read or has no known structure, fails the platform
\* filter, or finds a file where its destination directory should be
Failing(a) ==
  \/ task[a].sigs = {}
  \/ args.platform # "all" /\ args.platform \notin task[a].sigs
  \/ fs.dest[task[a].dest_dir] = "file"

\* C14: a worker that is done has extracted its archive exactly when the
\* archive is not a failing one, and reports success exactly then, whatever
\* the other archives are; the extraction phase ends, and the processed
\* count it returns is the number of archives extracted.
C14_FailureIsolated ==
  /\ [](\A a \in ArchiveIds :
          Finished(a) => /\ Extracted(a) <=> ~Failing(a)
                         /\ task[a].success <=> Extracted(a))
  /\ [](pc \notin {"start", "extract"}
          => ext.processed = Cardinality({a \in ext.found : Extracted(a)}))
  /\ (pc = "extract") ~> (pc = "scan_call")

\* of two archives one was skipped and the other extracted and counted
C14_Witness ==
  /\ pc = "scan_call"
  /\ ext.processed = 1
  /\ \E a, b \in ext.found :
       /\ Failing(a) /\ ~task[a].success /\ ~Extracted(a)
       /\ ~Failing(b) /\ task[b].success /\ Extracted(b)

\* the lower-cased components of a path
Components(path) ==
  {PathStr(path)[i] : i \in 1..Len(path)}

KeywordOrder ==
  <<"google chat", "facebook", "messenger", "instagram">>

KeywordPlatform(k) ==
  IF k = "google chat" THEN "google_chat"
  ELSE IF k = "instagram" THEN "instagram" ELSE "facebook"

\* the platforms under which the queue of the run holds the walked directory
QueuedAs(path) ==
  {tree[i][1].platform : i \in {j \in 1..Len(tree) : tree[j][1].path = path /\ tree[j][3] < 10}}

QueueBuilt ==
  mode \in WalkModes /\ pc \notin {"start", "extract", "scan_call"}

\* C15: a walked directory with a marker file is queued under the platform
\* of the first keyword of ('google chat', 'facebook', 'messenger',
\* 'instagram') that its lower-cased path contains, wherever the keywords
\* stand in the path, and is not queued without a keyword; so a path with
\* 'google chat' is google_chat whatever else it contains, and a path with
\* 'facebook' and 'instagram' but without 'google chat' is facebook.
C15_KeywordPrecedence ==
  QueueBuilt =>
    \A i \in 1..Len(Walk(workspace)) :
      LET d == Walk(workspace)[i]
          ks == Components(d.path)
      IN d.files # {} =>
           /\ \A j \in 1..Len(KeywordOrder) :
                (KeywordOrder[j] \in ks /\ \A h \in 1..(j - 1) : KeywordOrder[h] \notin ks)
                  => QueuedAs(d.path) = {KeywordPlatform(KeywordOrder[j])}
           /\ (\A j \in 1..Len(KeywordOrder) : KeywordOrder[j] \notin ks)
                => QueuedAs(d.path) = {}
           /\ "google chat" \in ks => QueuedAs(d.path) = {"google_chat"}
           /\ ("facebook" \in ks /\ "instagram" \in ks /\ "google chat" \notin ks)
                => QueuedAs(d.path) = {"facebook"}

\* C15 as stated: every path with 'facebook' and 'instagram' is facebook,
\* and every path with 'google chat' and another keyword is google_chat.
C15_AsStated ==
  QueueBuilt =>
    \A i \in 1..Len(Walk(workspace)) :
      LET d == Walk(workspace)[i]
          ks == Components(d.path)
      IN d.files # {} =>
           /\ ("facebook" \in ks /\ "instagram" \in ks) => QueuedAs(d.path) = {"facebook"}
           /\ ("google chat" \in ks /\ ks \cap {"facebook", "messenger", "instagram"} # {})
                => QueuedAs(d.path) = {"google_chat"}

\* instagram/Facebook below scan_path: the later keyword of the path wins
C15_Witness ==
  /\ QueueBuilt
  /\ workspace.subdirs[1].path = <<"instagram", "Facebook">>
  /\ workspace.subdirs[1].files = {"messages.json"}
  /\ workspace.root = <<>>
  /\ QueuedAs(<<"instagram", "Facebook">>) = {"facebook"}

\* the parser calls of the scan, in order
Parses ==
  SelectSeq(obs.log, LAMBDA e : e.ev = "parse")

Structural(platform) ==
  platform \in {"google_voice", "google_mail"}

\* the weights of the recursively discovered units in dispatch order
WalkedWeights ==
  LET walked == SelectSeq(Parses, LAMBDA e : ~Structural(e.platform))
  IN [i \in 1..Len(walked) |-> priority_map(walked[i].platform)]

\* C16: no recursively discovered unit is dispatched before a structural
\* unit, and the recursively discovered units are dispatched in the order
\* of their weights (ascending throughout or descending throughout), so
\* that the units of one platform follow each other.
C16_PriorityOrder ==
  /\ \A i, j \in 1..Len(Parses) :
       (i < j /\ Structural(Parses[j].platform)) => Structural(Parses[i].platform)
  /\ LET w == WalkedWeights
     IN \/ \A i, j \in 1..Len(w) : i < j => w[i] <= w[j]
        \/ \A i, j \in 1..Len(w) : i < j => w[i] >= w[j]

\* C17: no path is handed to a parser twice in one scan.
C17_DispatchedOnce ==
  \A i, j \in 1..Len(Parses) : Parses[i].path = Parses[j].path => i = j

FileBased ==
  {"google_voice", "google_chat", "facebook", "instagram"}

\* C18: in the log of a scan every file-based platform has at most one
\* identity discovery, and every parser call of such a platform comes after
\* the discovery of the platform, whether or not a name was found.
C18_DiscoveryOnce ==
  \A platform \in FileBased :
    LET found == {i \in 1..Len(obs.log) :
                    obs.log[i].ev = "discover" /\ obs.log[i].platform = platform}
    IN /\ Cardinality(found) <= 1
       /\ \A j \in 1..Len(obs.log) :
            (obs.log[j].ev = "parse" /\ obs.log[j].platform = platform)
              => \E i \in found : i < j

\* two facebook directories were parsed after a discovery that found no name
C18_Witness ==
  /\ pc = "scanned"
  /\ workspace.profiles = {}
  /\ Cardinality({j \in 1..Len(Parses) : Parses[j].platform = "facebook"}) = 2
  /\ "facebook" \in scan.discovered_identities

Recorded(a) ==
  \E i \in 1..Len(ext.archive_moves) : ext.archive_moves[i][1] = a

\* C19: after the rollback of a failed run every recorded relocation has
\* been handled: the archive is back at its original path and reported as
\* restored, or, when it was recorded without a new path, it is reported as
\* unrecoverable.
C19_EveryMoveHandled ==
  (obs.why = "failed" /\ pc = "exit1") =>
    \A i \in 1..Len(ext.archive_moves) :
      LET original == ext.archive_moves[i][1]
          processed == ext.archive_moves[i][2]
          said(what) == \E k \in 1..Len(obs.report) : obs.report[k] = <<what, original>>
      IN IF processed = <<>> THEN said("Unrecoverable")
         ELSE said("Restored") /\ fs.atOrig[original] # 0

\* C20: the rollback step leaves the committed store, the extracted files,
\* the destination directories, the archives without a recorded move and
\* the other files of .processed as they are.
C20_RollbackFrame ==
  [][pc = "except" =>
       /\ db' = db
       /\ fs'.extracted = fs.extracted
       /\ fs'.dest = fs.dest
       /\ \A a \in ArchiveIds : ~MovedToProcessed(a) => fs'.atOrig[a] = fs.atOrig[a]
       /\ \A f \in fs.proc :
            (\A i \in 1..Len(ext.archive_moves) :
               ext.archive_moves[i][2] # <<f.name, f.t>>) => f \in fs'.proc]_vars

\* a scan that had committed a batch failed after both archives had been
\* extracted and moved to .processed; the rollback moved them back
C20_Witness ==
  /\ obs.why = "failed"
  /\ pc = "exit1"
  /\ obs.commits > 0
  /\ BagCardinality(db.messages) > 0
  /\ Cardinality(fs.extracted) = 2
  /\ \E a \in ArchiveIds : MovedToProcessed(a) /\ fs.atOrig[a] = a
  /\ fs.proc = {}

ThreadsOf(st, tid) ==
  {t \in st.threads : t.id = tid}

\* C21: between two units, and in the committed store, every message row
\* has exactly one thread row with its thread_id.
C21_ThreadExists ==
  /\ \A r \in BagToSet(tx.messages) : Cardinality(ThreadsOf(tx, r.thread_id)) = 1
  /\ \A r \in BagToSet(db.messages) : Cardinality(ThreadsOf(db, r.thread_id)) = 1

\* a mailbox whose second message was a duplicate: the thread of the first
\* one was written
C21_Witness ==
  /\ last.platform = "google_mail"
  /\ last.count = 1
  /\ last.skipped = 1
  /\ Cardinality(ThreadsOf(tx, "gm_1")) = 1

\* the function of the last call had been called before, on the same files
CalledAgain ==
  /\ activity.calls # <<>>
  /\ \E k \in 1..(Len(activity.calls) - 1) : activity.calls[k] = activity.calls[Len(activity.calls)]

\* C22: a second call of an activity parser on unchanged files inserts
\* nothing (msg_count = 0, every entry skipped) and leaves the stored rows,
\* with their ids, in the table.
C22_SecondCallSkipped ==
  CalledAgain =>
    /\ activity.msg_count = 0
    /\ activity.skipped_count > 0
    /\ activity.prior \subseteq activity.content

\* the snippet the parser of a platform derives from one message, starting
\* from the empty snippet
DerivedSnippet(platform, m) ==
  IF platform = "google_voice"
  THEN IF VoiceText(m.raw) # "" THEN <<FixText(m.sender), VoiceText(m.raw)>> ELSE <<"">>
  ELSE IF platform = "google_chat" THEN Snippet(m.sender, FixText(m.raw))
  ELSE Snippet(FixText(m.sender), FixText(m.raw))

OrderedUnit == tree[1][1]

OrderedThread ==
  IF OrderedUnit.platform = "google_voice" THEN "+1" ELSE OrderedUnit.name

Latest(msgs) ==
  MaxOf({msgs[i].ts : i \in 1..Len(msgs)})

\* C23: whatever the order of the messages of a unit, the thread row gets the
\* largest timestamp of the unit as last_activity_ms and a snippet derived
\* from a message that carries that timestamp.
C23_LatestMessage ==
  (mode = "order" /\ tree # <<>>) =>
    \A t \in ThreadsOf(tx, OrderedThread) :
      /\ t.last_activity_ms = Latest(OrderedUnit.msgs)
      /\ \E i \in 1..Len(OrderedUnit.msgs) :
           /\ OrderedUnit.msgs[i].ts = Latest(OrderedUnit.msgs)
           /\ t.snippet = DerivedSnippet(OrderedUnit.platform, OrderedUnit.msgs[i])

\* the same holds for the thread directories alone (facebook, instagram,
\* google_chat)
DirectoriesLatestMessage ==
  (mode = "order" /\ tree # <<>> /\ OrderedUnit.platform # "google_voice") => C23_LatestMessage

\* the candidates the tool that resolved the references looked at
UsedCandidates ==
  IF att.by = "ingest" THEN Candidates(att.files, att.ename)
  ELSE CandidatesSplit(att.files, att.ename)

\* the name a reference without disk candidate is to get at index idx
FallbackName(ename, idx) ==
  IF idx > 0 THEN File(ename, idx)
  ELSE IF HasQuestionMark(ename) THEN File(Sanitize(ename), 0)
  ELSE File(ename, 0)

\* C24: every reference is resolved, and a reference whose index offset + i
\* has no disk candidate gets root(index)ext when the index is above 0, the
\* name with "?" replaced when the index is 0 and the name holds a "?", and
\* its logical name otherwise.
C24_Fallback ==
  att.by # "" =>
    /\ Len(att.export_name) = att.nrefs
    /\ \A i \in 0..(att.nrefs - 1) :
         LET idx == Offset(Len(UsedCandidates), att.nrefs) + i
         IN  idx >= Len(UsedCandidates) => att.export_name[i + 1] = FallbackName(att.ename, idx)

\* the same for the references ingest_google_chat_thread resolves
IngestFallback ==
  att.by = "ingest" => C24_Fallback

\* C28: two different references to one logical name never get the same
\* file name.
C28_Injective ==
  att.by # "" =>
    \A i, j \in 1..att.nrefs : i # j => att.export_name[i] # att.export_name[j]

\* the worker of archive a read the member list, found none of the
\* signatures the platform filter asks for, and returned
SkippedByFilter(a) ==
  /\ a \in ext.found
  /\ Finished(a)
  /\ args.platform # "all"
  /\ task[a].sigs # {}
  /\ args.platform \notin task[a].sigs

\* C25: an archive skipped by the platform filter stays as it was: it is not
\* extracted, not moved or deleted, not recorded, it adds no platform to the
\* detected ones and it is not counted as processed.
C25_SkippedUntouched ==
  \A a \in ArchiveIds :
    SkippedByFilter(a) =>
      /\ fs.atOrig[a] = a
      /\ ~Extracted(a)
      /\ \A f \in fs.proc : f.holds # a
      /\ ~Recorded(a)
      /\ ~task[a].success /\ task[a].move_info = NoMove /\ task[a].local_detected = {}
      /\ ext.detected_platforms \subseteq
           UNION {task[b].local_detected : b \in ext.found \ {a}}
      /\ ext.processed <= Cardinality({b \in ext.found \ {a} : task[b].wpc = "collected"})

\* filter facebook: a Voice takeout is skipped, a facebook export next to it
\* is extracted and moved
C25_Witness ==
  /\ \E a \in ArchiveIds : SkippedByFilter(a) /\ task[a].sigs = {"google_voice"}
                           /\ task[a].wpc = "collected"
  /\ ext.processed = 1
  /\ Len(ext.archive_moves) = 1
  /\ pc = "scan_call"

RecordsOf(a) ==
  {i \in 1..Len(ext.archive_moves) : ext.archive_moves[i][1] = a}

RolledBack ==
  pc = "exit1" /\ obs.why = "failed"

\* C26: up to a rollback, an archive has at most one record; a collected
\* archive has a record exactly when it was extracted and then deleted or
\* moved away; the record of a deletion has no new path; the record of a move
\* names the file the archive was moved to, which carries the plain name when
\* that name was free and the name with a timestamp when it was taken.
C26_OneRecord ==
  ~RolledBack =>
    \A a \in ArchiveIds :
      /\ Cardinality(RecordsOf(a)) <= 1
      /\ task[a].wpc = "collected" =>
           (Recorded(a) <=> (task[a].success /\ Extracted(a) /\ fs.atOrig[a] = 0))
      /\ \A i \in RecordsOf(a) :
           LET new_path == ext.archive_moves[i][2]
           IN  IF args.delete_archives
               THEN new_path = <<>> /\ \A f \in fs.proc : f.holds # a
               ELSE /\ new_path # <<>>
                    /\ new_path[1] = disk.name[a]
                    /\ Exists(fs.proc, new_path[1], new_path[2])
                    /\ new_path[2] = 0 =>
                         \E f \in fs.proc : f.name = new_path[1] /\ f.t = 0 /\ f.holds = a
                    /\ new_path[2] > 0 =>
                         \E f \in fs.proc : f.name = new_path[1] /\ f.t = 0 /\ f.holds # a

\* x.zip lies in .processed from an earlier run: one archive x.zip is moved
\* to x_t.zip and recorded, the move of the other archive failed and left no
\* record
C26_Witness ==
  /\ ~args.delete_archives
  /\ \A a \in ArchiveIds : task[a].wpc = "collected" /\ task[a].success
  /\ \E a \in ArchiveIds :
       /\ Recorded(a) /\ fs.atOrig[a] = 0
       /\ \E i \in RecordsOf(a) : ext.archive_moves[i][2] = <<"x.zip", now>>
  /\ \E a \in ArchiveIds : ~Recorded(a) /\ fs.atOrig[a] = a

\* C27: when merge_folders has returned, every file src held is in dst with
\* its data or still in src; src is gone only when every file was
\* transferred.
C27_NoFileLost ==
  (mode = "merge" /\ merge.pc = "done") =>
    /\ \A f \in merge.given : merge.dst[f] = "new" \/ f \in merge.src
    /\ ~merge.src_exists => \A f \in merge.given : merge.dst[f] = "new"

\* C29: the directory an archive was extracted into agrees with the tags it
\* recorded: Instagram only with the tag instagram, Facebook only with the
\* tag facebook, the workspace root only with a Google tag.
C29_DestinationAgrees ==
  \A a \in ArchiveIds :
    Extracted(a) =>
      /\ task[a].dest_dir = "Instagram" => "instagram" \in task[a].local_detected
      /\ task[a].dest_dir = "Facebook" => "facebook" \in task[a].local_detected
      /\ task[a].dest_dir = "root" =>
           task[a].local_detected \cap {"google_voice", "google_chat", "google_mail"} # {}

\* the path in .processed the record of archive a names
ProcessedPath(a) ==
  ext.archive_moves[CHOOSE i \in RecordsOf(a) : TRUE][2]

\* C30: up to a rollback, the archives moved into .processed lie at pairwise
\* different paths, each of them holding the archive that was moved there:
\* no move has replaced a file that was in the directory.
C30_NoOverwrite ==
  ~RolledBack =>
    \A a \in ArchiveIds :
      MovedToProcessed(a) =>
        /\ \A b \in ArchiveIds \ {a} : MovedToProcessed(b) => ProcessedPath(a) # ProcessedPath(b)
        /\ \E f \in fs.proc :
             f.name = ProcessedPath(a)[1] /\ f.t = ProcessedPath(a)[2] /\ f.holds = a

====
